---- MODULE Spec2Model ----
(***************************************************************************)
(* Model of the upgrade tool: the POST /api/upgrade request handler of     *)
(* server.mjs (backup, extract, preserve, replace, rollback), two requests *)
(* running in one server, the session log and its SSE client and, from     *)
(* configMerger.mjs, the Apache httpd configuration merge on parsed        *)
(* documents and on text, the diff report, the Tomcat server.xml merge and *)
(* the jdk merge.                                                          *)
(***************************************************************************)
EXTENDS Integers, Sequences, FiniteSets, TLC

VARIABLES
    pc,                 \* position of the handler
    config,             \* req.body.config
    upload,             \* req.file: "none" or the original name's extension
    newTree,            \* content of the uploaded archive
    targetExists,       \* fs.pathExists(existingPath)
    target,             \* content of existingPath, file by file
    target0,            \* content of existingPath when the request arrived
    accessResult,       \* what testPathAccess met: "untested", "ok", "missing", ...
    probe,              \* the .upgrade_test_<ts> file is present in existingPath
    backupFolder,       \* the handler's variable backupFolder ('' until Backup returns)
    backupFolderExists, \* the backup folder is on disk
    backup,             \* content of the backup folder (or of its zip)
    backupZipExists,    \* <backupFolder>.zip is on disk
    tempDir,            \* the handler's variable tempDir
    tempExists,         \* the temporary extraction directory is on disk
    temp,               \* content of the extracted tree (actualRoot)
    uploadExists,       \* the uploaded archive is still in uploads/
    logs,               \* the logs array
    responses,          \* the responses written to res
    err,                \* e.message of the exception caught by the handler
    replaceWrote,       \* the files Replace wrote into existingPath
    restoreFrom,        \* branch taken by the rollback
    restoreOk,          \* the rollback's restore returned without throwing
    history,            \* the operations on disk and on services, in order
    oldConfig,          \* mergeApacheConfig: parseApacheConfig(oldContent)
    newConfig,          \* mergeApacheConfig: parseApacheConfig(newContent)
    userCustomizations, \* mergeApacheConfig: extractApacheUserSettings(oldConfig)
    mergedConfig,       \* mergeApacheConfig: mergeApacheSettings(newConfig, userCustomizations)
    mpc,                \* mergeApacheConfig: position
    oldContent,         \* mergeApacheConfig: the lines of the old httpd.conf
    newContent,         \* mergeApacheConfig: the lines of the new version's httpd.conf
    outputPath,         \* mergeApacheConfig: outputPath, relative to the installation root
    vaptPath,           \* mergeApacheConfig: where the hardening include file was written
    rebuilt,            \* buildApacheConfig(parseApacheConfig(oldContent)), as lines
    finalContent,       \* mergeApacheConfig: the lines written to outputPath
    newTreeFiles,       \* the files the httpd preserve phase has put into the new tree
    changes,            \* generateDiffReport: changes, as the last call left it
    reports,            \* the reports generateDiffReport wrote, call after call
    heap,               \* the Connector and Host objects of the parsed server.xml files
    oldXmlConfig,       \* mergeTomcatConfig: oldConfig, the parsed old server.xml
    newXmlConfig,       \* mergeTomcatConfig: newConfig, the parsed new server.xml
    userSettings,       \* mergeTomcatConfig: extractTomcatUserSettings(oldConfig)
    shutdown,           \* TOMCAT_VAPT_SETTINGS.server['@_shutdown'], drawn at module load
    before,             \* the old and the new document as parsed, before any merge step
    once,               \* the document after the first applyTomcatVAPT
    outputIsNew,        \* smartMergeConfiguration: outputPath is newConfigPath
    outputFile,         \* the file at outputPath
    mergeResult,        \* what smartMergeConfiguration returned, or that it threw
    xpc,                \* smartMergeConfiguration for Tomcat: position
    sidecar,            \* the file outputPath + '.old-backup' is on disk
    preserve,           \* comprehensivePreserveTomEE_SECURE: position in the merge item
    clock,              \* the server's clock, in seconds
    run,                \* two requests in one server: position, config, backupFolder, tempDir
    uses,               \* which request created, read, wrote or removed which directory
    slog,               \* the logs array of a session's run
    stream,             \* the events written to the session's SSE client, in order
    client,             \* activeClients for the session: "none", "connected", "closed"
    joined,             \* the length of the logs array when the client connected
    spc,                \* the session's run: "off", "running", "responded"
    jdk                 \* smartMergeConfiguration for jdk: position, arguments, files, result

hvars == <<pc, config, upload, newTree, targetExists, target, target0, accessResult, probe,
           backupFolder, backupFolderExists, backup, backupZipExists, tempDir,
           tempExists, temp, uploadExists, logs, responses, err, replaceWrote,
           restoreFrom, restoreOk, history>>
tvars == <<oldContent, newContent, outputPath, vaptPath, rebuilt, finalContent,
           newTreeFiles>>
dvars == <<changes, reports>>
xvars == <<heap, oldXmlConfig, newXmlConfig, userSettings, shutdown, before, once,
           outputIsNew, outputFile, mergeResult, xpc, sidecar, preserve>>
cvars == <<clock, run, uses, slog, stream, client, joined, spc, jdk>>
mvars == <<oldConfig, newConfig, userCustomizations, mergedConfig, mpc, tvars, dvars, xvars,
           cvars>>
vars == <<hvars, mvars>>

(***************************************************************************)
(* Bounds                                                                  *)
(***************************************************************************)
MaxFiles == 2

Names == 1..MaxFiles
PreservedNames == {1}

EmptyTree == [n \in Names |-> "none"]
OldTrees == [Names -> {"none", "old"}]
NewTrees == [Names -> {"none", "new"}] \ {EmptyTree}
Present(t) == {n \in Names : t[n] # "none"}

ToolTypes == {"httpd", "tomcat", "jdk"}
\* req.body.config: absent, not valid JSON, or the parsed object
NoConfig(kind) == [kind |-> kind, toolType |-> "", preserveConfig |-> FALSE,
                   preserveData |-> FALSE]
ParsedConfigs == [kind : {"parsed"}, toolType : ToolTypes, preserveConfig : BOOLEAN,
                  preserveData : BOOLEAN]
Configs == {NoConfig("missing"), NoConfig("unparsable")} \cup ParsedConfigs
Uploads == {"none", ".zip", ".tar.gz", ".tgz", ".tar", ".rar"}
SupportedExt == {".zip", ".tar.gz", ".tgz", ".tar"}

\* fs.copy(src, dst, {overwrite: true}), robocopy /E and AdmZip.extractAllTo(dst, true):
\* every file of src is written over dst, no file of dst is removed.
\* Only the files in W are written (W = Present(src) when the copy completes).
CopyOver(dst, src, W) ==
    [n \in Names |-> IF n \in W /\ src[n] # "none" THEN src[n] ELSE dst[n]]

logStep(msg) == Append(logs, msg)

HUnchangedDisk == UNCHANGED <<targetExists, target, probe, backupFolderExists, backup,
                              backupZipExists, tempExists, temp, uploadExists>>

(***************************************************************************)
(* The state before a request: an installation at existingPath (or no such *)
(* path), nothing backed up, nothing extracted.                            *)
(***************************************************************************)
HInit ==
    /\ pc = "idle"
    /\ config = NoConfig("missing")
    /\ upload = "none"
    /\ newTree \in NewTrees
    /\ targetExists \in BOOLEAN
    /\ target \in IF targetExists THEN OldTrees ELSE {EmptyTree}
    /\ target0 = target
    /\ accessResult = "untested"
    /\ probe = FALSE
    /\ backupFolder = ""
    /\ backupFolderExists = FALSE
    /\ backup = EmptyTree
    /\ backupZipExists = FALSE
    /\ tempDir = ""
    /\ tempExists = FALSE
    /\ temp = EmptyTree
    /\ uploadExists = FALSE
    /\ logs = <<>>
    /\ responses = <<>>
    /\ err = ""
    /\ replaceWrote = {}
    /\ restoreFrom = "notrun"
    /\ restoreOk = FALSE
    /\ history = <<>>

\* the parsed configuration of an empty text
EmptyConfig == [directives |-> <<>>, modules |-> <<>>, virtualHosts |-> <<>>,
                directories |-> <<>>, ifModules |-> <<>>]
EmptyCustomizations == [directives |-> <<>>, virtualHosts |-> <<>>, directories |-> <<>>,
                        modules |-> <<>>]

\* no configuration text has been read or written
TInitIdle ==
    /\ oldContent = <<>>
    /\ newContent = <<>>
    /\ outputPath = <<>>
    /\ vaptPath = <<>>
    /\ rebuilt = <<>>
    /\ finalContent = <<>>
    /\ newTreeFiles = {}

NoChanges == [added |-> <<>>, removed |-> <<>>, modified |-> <<>>]

\* no diff report has been generated
DInitIdle ==
    /\ changes = NoChanges
    /\ reports = <<>>

\* a parsed server.xml: the attributes of Server, and the Connector and Host
\* objects of its first Service, in order
EmptyDocument == [Server |-> <<>>, Connector |-> <<>>, Host |-> <<>>]
NoFile == [exists |-> FALSE, content |-> EmptyDocument]
NoSettings == [connectors |-> <<>>, hosts |-> <<>>, contexts |-> <<>>]
NoResult == [returned |-> FALSE, threw |-> FALSE, merged |-> FALSE, fallback |-> FALSE]

\* no server.xml has been parsed
XInitIdle ==
    /\ heap = <<>>
    /\ oldXmlConfig = EmptyDocument
    /\ newXmlConfig = EmptyDocument
    /\ userSettings = NoSettings
    /\ shutdown = ""
    /\ before = [old |-> EmptyDocument, new |-> EmptyDocument]
    /\ once = EmptyDocument
    /\ outputIsNew = FALSE
    /\ outputFile = NoFile
    /\ mergeResult = NoResult
    /\ xpc = "off"
    /\ sidecar = FALSE
    /\ preserve = "off"

Runs == {1, 2}
NoRun == [pc |-> "off", toolType |-> "", backupPath |-> "", backupFolder |-> <<>>,
          tempDir |-> <<>>]

NoJdk == [pc |-> "off", oldJdkPath |-> <<>>, newJdkPath |-> <<>>, oldFiles |-> {},
          newFiles |-> {}, oldPolicy |-> {}, newPolicy |-> {}, result |-> <<>>,
          counted |-> ""]

\* no session's log is being followed and no jdk merge is running
SInitIdle ==
    /\ jdk = NoJdk
    /\ slog = <<>>
    /\ stream = <<>>
    /\ client = "none"
    /\ joined = 0
    /\ spc = "off"

\* no two requests are being followed
CInitIdle ==
    /\ clock = 0
    /\ run = [r \in Runs |-> NoRun]
    /\ uses = {}
    /\ SInitIdle

\* no merge is running
MInitIdle ==
    /\ CInitIdle
    /\ TInitIdle
    /\ DInitIdle
    /\ XInitIdle
    /\ oldConfig = EmptyConfig
    /\ newConfig = EmptyConfig
    /\ userCustomizations = EmptyCustomizations
    /\ mergedConfig = EmptyConfig
    /\ mpc = "off"

Init == HInit /\ MInitIdle

\* throw inside the handler's try block: control goes to the catch clause
Throw(msg) ==
    /\ err' = msg
    /\ pc' = "catch"

(***************************************************************************)
(* app.post('/api/upgrade'): request validation                            *)
(***************************************************************************)
\* if (!req.body.config) return res.status(400).json({success: false, error})
RejectMissingConfig ==
    /\ pc = "idle"
    /\ \E u \in Uploads :
         /\ upload' = u
         /\ uploadExists' = (u # "none")
    /\ config' = NoConfig("missing")
    /\ responses' = Append(responses,
          [status |-> 400, success |-> FALSE,
           error |-> "Missing config parameter in request body"])
    /\ pc' = "done"
    /\ UNCHANGED <<newTree, targetExists, target, target0, probe, backupFolder,
                   backupFolderExists, backup, backupZipExists, tempDir, tempExists,
                   temp, logs, err, replaceWrote, restoreFrom, restoreOk, history>>
    /\ UNCHANGED <<accessResult, mvars>>

\* const config = JSON.parse(req.body.config) throws before the try block
ParseConfigThrows ==
    /\ pc = "idle"
    /\ \E u \in Uploads :
         /\ upload' = u
         /\ uploadExists' = (u # "none")
    /\ config' = NoConfig("unparsable")
    /\ pc' = "rejected"
    /\ UNCHANGED <<newTree, targetExists, target, target0, probe, backupFolder,
                   backupFolderExists, backup, backupZipExists, tempDir, tempExists,
                   temp, logs, responses, err, replaceWrote, restoreFrom, restoreOk,
                   history>>
    /\ UNCHANGED <<accessResult, mvars>>

\* The rejected promise of the async handler: Express 5 forwards it to the default
\* error handler, which answers 500 without the handler's fields.
FrameworkErrorResponse ==
    /\ pc = "rejected"
    /\ responses' = Append(responses, [status |-> 500])
    /\ pc' = "done"
    /\ UNCHANGED <<config, upload, newTree, target0, tempDir, backupFolder, logs, err,
                   replaceWrote, restoreFrom, restoreOk, history>>
    /\ HUnchangedDisk
    /\ UNCHANGED <<accessResult, mvars>>

\* Express 4 does not observe the rejection: the request is never answered.
UnhandledRejection ==
    /\ pc = "rejected"
    /\ pc' = "hung"
    /\ UNCHANGED <<config, upload, newTree, target0, tempDir, backupFolder, logs,
                   responses, err, replaceWrote, restoreFrom, restoreOk, history>>
    /\ HUnchangedDisk
    /\ UNCHANGED <<accessResult, mvars>>

\* config parsed; banner, system info and configuration are logged
AcceptRequest ==
    /\ pc = "idle"
    /\ \E c \in ParsedConfigs, u \in Uploads :
         /\ config' = c
         /\ upload' = u
         /\ uploadExists' = (u # "none")
    /\ logs' = logStep("SECURE ROBOCOPY-BASED UPGRADE INITIATED")
    /\ pc' = "try"
    /\ UNCHANGED <<newTree, targetExists, target, target0, probe, backupFolder,
                   backupFolderExists, backup, backupZipExists, tempDir, tempExists,
                   temp, responses, err, replaceWrote, restoreFrom, restoreOk, history>>
    /\ UNCHANGED <<accessResult, mvars>>

(***************************************************************************)
(* try block                                                               *)
(***************************************************************************)
\* uploadedFilePath = req.file.path
ReadUploadPath ==
    /\ pc = "try"
    /\ IF upload = "none"
         THEN /\ Throw("Cannot read properties of undefined (reading 'path')")
              /\ UNCHANGED logs
         ELSE /\ logs' = logStep("FILE_OP: UPLOADED_FILE_SAVED")
              /\ pc' = "phase0"
              /\ UNCHANGED err
    /\ UNCHANGED <<config, upload, newTree, target0, tempDir, backupFolder, responses,
                   replaceWrote, restoreFrom, restoreOk, history>>
    /\ HUnchangedDisk
    /\ UNCHANGED <<accessResult, mvars>>

\* testPathAccess: the outcomes of pathExists, writeFile(testFile), remove(testFile)
AccessOutcomes ==
    IF targetExists THEN {"ok", "unwritable", "undeletable"} ELSE {"missing"}

\* variant: only a missing path is reported as inaccessible
testPathAccessExistsOnly(outcome) ==
    [accessible |-> (outcome # "missing"),
     probeLeft  |-> (outcome = "undeletable"),
     wrote      |-> (outcome \in {"ok", "undeletable"})]

testPathAccess(outcome) ==
    [accessible |-> (outcome = "ok"),
     probeLeft  |-> (outcome = "undeletable"),
     wrote      |-> (outcome \in {"ok", "undeletable"})]

\* PHASE 0
AccessCheck ==
    /\ pc = "phase0"
    /\ \E o \in AccessOutcomes :
         LET r == testPathAccess(o) IN
         /\ accessResult' = o
         /\ probe' = r.probeLeft
         /\ history' = IF r.wrote THEN Append(history, "probe") ELSE history
         /\ IF r.accessible
              THEN /\ logs' = Append(logStep("PHASE 0"), "Path is accessible and writable")
                   /\ pc' = "phase1"
                   /\ UNCHANGED err
              ELSE /\ logs' = Append(logStep("PHASE 0"), "ERROR in PATH_ACCESS_TEST")
                   /\ Throw("Cannot access existingPath")
    /\ UNCHANGED <<config, upload, newTree, targetExists, target, target0, backupFolder,
                   backupFolderExists, backup, backupZipExists, tempDir, tempExists,
                   temp, uploadExists, responses, replaceWrote, restoreFrom, restoreOk>>
    /\ UNCHANGED mvars

\* variant: the folder name is assigned before the copy, whatever its outcome
BackupFolderValueEarly(returned) == "set"

\* backupFolder = await backupWithStructure(...): assigned only when the call returns
BackupFolderValue(returned) == IF returned THEN "set" ELSE ""

\* PHASE 1: backupWithStructure returns
BackupOk ==
    /\ pc = "phase1"
    /\ backupFolderExists' = TRUE
    /\ backup' = target
    /\ backupFolder' = BackupFolderValue(TRUE)
    /\ history' = Append(history, "backup")
    /\ logs' = Append(logStep("PHASE 1"), "Backup completed successfully")
    /\ pc' = "phase2"
    /\ UNCHANGED <<config, upload, newTree, targetExists, target, target0, probe,
                   backupZipExists, tempDir, tempExists, temp, uploadExists, responses,
                   err, replaceWrote, restoreFrom, restoreOk>>
    /\ UNCHANGED <<accessResult, mvars>>

\* backupWithStructure throws: the folder was created (ensureDir) and the copy
\* stopped after the files in W; the handler's backupFolder stays ''.
BackupFails ==
    /\ pc = "phase1"
    /\ \E made \in BOOLEAN, W \in SUBSET Present(target) :
         /\ W # Present(target) \/ Present(target) = {}
         /\ made \/ W = {}
         /\ backupFolderExists' = made
         /\ backup' = CopyOver(EmptyTree, target, W)
    /\ backupFolder' = BackupFolderValue(FALSE)
    /\ logs' = Append(logStep("PHASE 1"), "ERROR in BACKUP_PROCESS")
    /\ Throw("backup failed")
    /\ UNCHANGED <<config, upload, newTree, targetExists, target, target0, probe,
                   backupZipExists, tempDir, tempExists, temp,
                   uploadExists, responses, replaceWrote, restoreFrom, restoreOk,
                   history>>
    /\ UNCHANGED <<accessResult, mvars>>

\* extractArchive: the chain of originalName.endsWith(...) tests
SupportedFormat(name) == name \in SupportedExt

\* PHASE 2: tempDir is set and created, extractArchive extracts the archive
ExtractOk ==
    /\ pc = "phase2"
    /\ SupportedFormat(upload)
    /\ tempDir' = "set"
    /\ tempExists' = TRUE
    /\ temp' = newTree
    /\ history' = Append(history, "extract")
    /\ logs' = Append(logStep("PHASE 2"), "Archive extracted successfully")
    /\ pc' = "findroot"
    /\ UNCHANGED <<config, upload, newTree, targetExists, target, target0, probe,
                   backupFolder, backupFolderExists, backup, backupZipExists,
                   uploadExists, responses, err, replaceWrote, restoreFrom, restoreOk>>
    /\ UNCHANGED <<accessResult, mvars>>

\* extractArchive throws on the final else branch, after ensureDir(extractTo)
ExtractUnsupported ==
    /\ pc = "phase2"
    /\ ~SupportedFormat(upload)
    /\ tempDir' = "set"
    /\ tempExists' = TRUE
    /\ logs' = Append(logStep("PHASE 2"), "ERROR in EXTRACT_ARCHIVE")
    /\ Throw("Unsupported archive format")
    /\ UNCHANGED <<config, upload, newTree, targetExists, target, target0, probe,
                   backupFolder, backupFolderExists, backup, backupZipExists, temp,
                   uploadExists, responses, replaceWrote, restoreFrom, restoreOk,
                   history>>
    /\ UNCHANGED <<accessResult, mvars>>

\* the extractor throws (unreadable archive): part of the tree was produced
ExtractFails ==
    /\ pc = "phase2"
    /\ SupportedFormat(upload)
    /\ tempDir' = "set"
    /\ tempExists' = TRUE
    /\ \E W \in SUBSET Present(newTree) :
         /\ W # Present(newTree)
         /\ temp' = CopyOver(EmptyTree, newTree, W)
    /\ logs' = Append(logStep("PHASE 2"), "ERROR in EXTRACT_ARCHIVE")
    /\ Throw("extraction failed")
    /\ UNCHANGED <<config, upload, newTree, targetExists, target, target0, probe,
                   backupFolder, backupFolderExists, backup, backupZipExists,
                   uploadExists, responses, replaceWrote, restoreFrom, restoreOk,
                   history>>
    /\ UNCHANGED <<accessResult, mvars>>

\* findRootFolder returns the root of the new tree
FindRootOk ==
    /\ pc = "findroot"
    /\ logs' = logStep("ANALYZING EXTRACTED ARCHIVE STRUCTURE")
    /\ pc' = "phase3"
    /\ UNCHANGED <<config, upload, newTree, target0, tempDir, backupFolder, responses,
                   err, replaceWrote, restoreFrom, restoreOk, history>>
    /\ HUnchangedDisk
    /\ UNCHANGED <<accessResult, mvars>>

\* fs.readdir or fs.stat inside findRootFolder throws
FindRootFails ==
    /\ pc = "findroot"
    /\ logs' = logStep("ANALYZING EXTRACTED ARCHIVE STRUCTURE")
    /\ Throw("root folder detection failed")
    /\ UNCHANGED <<config, upload, newTree, target0, tempDir, backupFolder, responses,
                   replaceWrote, restoreFrom, restoreOk, history>>
    /\ HUnchangedDisk
    /\ UNCHANGED <<accessResult, mvars>>

\* comprehensivePreserve*_SECURE: the preserved items of the old installation
\* replace their counterparts in the new tree; an item missing in the old
\* installation is skipped.
PreserveInto(newT, oldT) ==
    [n \in Names |-> IF n \in PreservedNames /\ oldT[n] # "none" THEN oldT[n] ELSE newT[n]]

\* PHASE 3 with preserveConfig || preserveData.  An item of type 'merge' that the
\* old installation has goes through smartMergeConfiguration, whose first step is
\* detectAndStopServices(toolType)
PreserveOk ==
    /\ pc = "phase3"
    /\ config.preserveConfig \/ config.preserveData
    /\ temp' = PreserveInto(temp, target)
    /\ history' = IF \E n \in PreservedNames : target[n] # "none"
                    THEN Append(history, "detectAndStopServices")
                    ELSE history
    /\ logs' = Append(logStep("PHASE 3: Smart preservation"), "PRESERVATION SUMMARY")
    /\ pc' = "phase4"
    /\ UNCHANGED <<config, upload, newTree, targetExists, target, target0, probe,
                   backupFolder, backupFolderExists, backup, backupZipExists, tempDir,
                   tempExists, uploadExists, responses, err, replaceWrote, restoreFrom,
                   restoreOk>>
    /\ UNCHANGED <<accessResult, mvars>>

\* a critical item could not be preserved
PreserveFails ==
    /\ pc = "phase3"
    /\ config.preserveConfig \/ config.preserveData
    /\ logs' = Append(logStep("PHASE 3: Smart preservation"), "ERROR in PRESERVE")
    /\ Throw("Failed to preserve critical item")
    /\ UNCHANGED <<config, upload, newTree, target0, tempDir, backupFolder, responses,
                   replaceWrote, restoreFrom, restoreOk, history>>
    /\ HUnchangedDisk
    /\ UNCHANGED <<accessResult, mvars>>

\* PHASE 3 skipped
PreserveSkipped ==
    /\ pc = "phase3"
    /\ ~(config.preserveConfig \/ config.preserveData)
    /\ logs' = logStep("PHASE 3: Skipping preservation")
    /\ pc' = "phase4"
    /\ UNCHANGED <<config, upload, newTree, target0, tempDir, backupFolder, responses,
                   err, replaceWrote, restoreFrom, restoreOk, history>>
    /\ HUnchangedDisk
    /\ UNCHANGED <<accessResult, mvars>>

\* killApacheProcesses, then PHASE 4: the new tree is copied over existingPath
ReplaceOk ==
    /\ pc = "phase4"
    /\ target' = CopyOver(target, temp, Present(temp))
    /\ targetExists' = TRUE
    /\ replaceWrote' = Present(temp)
    /\ history' = Append(Append(history, "killApacheProcesses"), "replace")
    /\ logs' = Append(logStep("PHASE 4"), "UPGRADE COMPLETED SUCCESSFULLY")
    /\ pc' = "rmtemp"
    /\ UNCHANGED <<config, upload, newTree, target0, probe, backupFolder,
                   backupFolderExists, backup, backupZipExists, tempDir, tempExists,
                   temp, uploadExists, responses, err, restoreFrom, restoreOk>>
    /\ UNCHANGED <<accessResult, mvars>>

\* the copy throws (file lock) after the files in W were written
ReplaceFails ==
    /\ pc = "phase4"
    /\ \E W \in SUBSET Present(temp) :
         /\ W # Present(temp)
         /\ target' = CopyOver(target, temp, W)
         /\ replaceWrote' = W
    /\ history' = Append(Append(history, "killApacheProcesses"), "replace")
    /\ logs' = logStep("PHASE 4")
    /\ Throw("replace failed")
    /\ UNCHANGED <<config, upload, newTree, targetExists, target0, probe, backupFolder,
                   backupFolderExists, backup, backupZipExists, tempDir, tempExists,
                   temp, uploadExists, responses, restoreFrom, restoreOk>>
    /\ UNCHANGED <<accessResult, mvars>>

\* await fs.remove(tempDir) after the replace
RemoveTempOk ==
    /\ pc = "rmtemp"
    /\ tempExists' = FALSE
    /\ temp' = EmptyTree
    /\ logs' = logStep("Cleaning up temporary extraction directory...")
    /\ pc' = "phase5"
    /\ UNCHANGED <<config, upload, newTree, targetExists, target, target0, probe,
                   backupFolder, backupFolderExists, backup, backupZipExists, tempDir,
                   uploadExists, responses, err, replaceWrote, restoreFrom, restoreOk,
                   history>>
    /\ UNCHANGED <<accessResult, mvars>>

\* fs.remove(tempDir) throws (EBUSY, EPERM): inside the try block
RemoveTempFails ==
    /\ pc = "rmtemp"
    /\ logs' = logStep("Cleaning up temporary extraction directory...")
    /\ Throw("remove tempDir failed")
    /\ UNCHANGED <<config, upload, newTree, target0, tempDir, backupFolder, responses,
                   replaceWrote, restoreFrom, restoreOk, history>>
    /\ HUnchangedDisk
    /\ UNCHANGED <<accessResult, mvars>>

\* PHASE 5: zipAndCleanupFolder writes <folder>.zip and removes the folder
CompressOk ==
    /\ pc = "phase5"
    /\ backupZipExists' = TRUE
    /\ backupFolderExists' = FALSE
    /\ logs' = Append(logStep("PHASE 5: Compressing backup"), "Backup preserved as zip")
    /\ pc' = "phase6"
    /\ UNCHANGED <<config, upload, newTree, targetExists, target, target0, probe,
                   backupFolder, backup, tempDir, tempExists, temp, uploadExists,
                   responses, err, replaceWrote, restoreFrom, restoreOk, history>>
    /\ UNCHANGED <<accessResult, mvars>>

\* variant: the folder is removed before the zip is written and verified
CompressFailsFolderRemovedFirst ==
    /\ pc = "phase5"
    /\ \E zipped \in BOOLEAN : backupZipExists' = zipped
    /\ backupFolderExists' = FALSE
    /\ logs' = Append(logStep("PHASE 5: Compressing backup"), "ERROR in ZIP_AND_CLEANUP")
    /\ Throw("zip failed")
    /\ UNCHANGED <<config, upload, newTree, targetExists, target, target0, probe,
                   backupFolder, backup, tempDir, tempExists, temp,
                   uploadExists, responses, replaceWrote, restoreFrom, restoreOk,
                   history>>
    /\ UNCHANGED <<accessResult, mvars>>

\* zipAndCleanupFolder throws: before the zip is written (zipped = FALSE) or in
\* fs.remove(folder) after it was written (zipped = TRUE)
CompressFails ==
    /\ pc = "phase5"
    /\ \E zipped \in BOOLEAN : backupZipExists' = zipped
    /\ logs' = Append(logStep("PHASE 5: Compressing backup"), "ERROR in ZIP_AND_CLEANUP")
    /\ Throw("zip failed")
    /\ UNCHANGED <<config, upload, newTree, targetExists, target, target0, probe,
                   backupFolder, backupFolderExists, backup, tempDir, tempExists, temp,
                   uploadExists, responses, replaceWrote, restoreFrom, restoreOk,
                   history>>
    /\ UNCHANGED <<accessResult, mvars>>

\* res.json({success: true, logs, duration, backupPath})
SuccessResponse ==
    [status |-> 200, success |-> TRUE, logs |-> logs, duration |-> "seconds",
     backupPath |-> "backupFolder.zip"]

\* PHASE 6: the uploaded archive is removed, the success response is sent
FinishOk ==
    /\ pc = "phase6"
    /\ uploadExists' = FALSE
    /\ logs' = Append(Append(logStep("PHASE 6: Final cleanup"), "Uploaded archive removed"),
                      "SECURE UPGRADE COMPLETED SUCCESSFULLY")
    /\ responses' = Append(responses, [SuccessResponse EXCEPT !.logs = logs'])
    /\ pc' = "done"
    /\ UNCHANGED <<config, upload, newTree, targetExists, target, target0, probe,
                   backupFolder, backupFolderExists, backup, backupZipExists, tempDir,
                   tempExists, temp, err, replaceWrote, restoreFrom, restoreOk, history>>
    /\ UNCHANGED <<accessResult, mvars>>

\* fs.remove(uploadedFilePath) throws: inside the try block
RemoveUploadFails ==
    /\ pc = "phase6"
    /\ logs' = logStep("PHASE 6: Final cleanup")
    /\ Throw("remove uploaded archive failed")
    /\ UNCHANGED <<config, upload, newTree, target0, tempDir, backupFolder, responses,
                   replaceWrote, restoreFrom, restoreOk, history>>
    /\ HUnchangedDisk
    /\ UNCHANGED <<accessResult, mvars>>

(***************************************************************************)
(* catch block                                                             *)
(***************************************************************************)
\* if (backupFolder && pathExists(backupFolder)) ... else if (backupFolder &&
\* pathExists(backupFolder + '.zip')) ... else no backup found
\* variant: the zip is preferred over the folder
RollbackSourceZipFirst(bf, folderExists, zipExists) ==
    IF bf # "" /\ zipExists THEN "zip"
    ELSE IF bf # "" /\ folderExists THEN "folder"
    ELSE "none"

RollbackSource(bf, folderExists, zipExists) ==
    IF bf # "" /\ folderExists THEN "folder"
    ELSE IF bf # "" /\ zipExists THEN "zip"
    ELSE "none"

CatchLogs == Append(Append(logStep("UPGRADE FAILED"), "ERROR in UPGRADE_PROCESS"),
                    "INITIATING ROBOCOPY ROLLBACK PROCEDURE")

\* the restore from the backup folder or from the backup zip returns
RollbackRestores ==
    /\ pc = "catch"
    /\ LET src == RollbackSource(backupFolder, backupFolderExists, backupZipExists) IN
         /\ src # "none"
         /\ restoreFrom' = src
    /\ restoreOk' = TRUE
    /\ target' = CopyOver(target, backup, Present(backup))
    /\ targetExists' = TRUE
    /\ history' = Append(history, "restore")
    /\ logs' = Append(CatchLogs, "[ROLLBACK] Successfully restored")
    /\ pc' = "cleanup"
    /\ UNCHANGED <<config, upload, newTree, target0, probe, backupFolder,
                   backupFolderExists, backup, backupZipExists, tempDir, tempExists,
                   temp, uploadExists, responses, err, replaceWrote>>
    /\ UNCHANGED <<accessResult, mvars>>

\* variant: the rollback's catch clause swallows the error without logging it
RollbackFailureLogsSwallowed == CatchLogs

\* catch (rollbackErr): logError and the CRITICAL line
RollbackFailureLogs ==
    Append(Append(CatchLogs, "ERROR in ROLLBACK_PROCEDURE"),
           "[CRITICAL] Rollback failed! Manual restoration required.")

\* the restore throws after the files in W were written back
RollbackFails ==
    /\ pc = "catch"
    /\ LET src == RollbackSource(backupFolder, backupFolderExists, backupZipExists) IN
         /\ src # "none"
         /\ restoreFrom' = src
    /\ restoreOk' = FALSE
    /\ \E W \in SUBSET Present(backup) :
         /\ W # Present(backup) \/ Present(backup) = {}
         /\ target' = CopyOver(target, backup, W)
    /\ history' = Append(history, "restore")
    /\ logs' = RollbackFailureLogs
    /\ pc' = "cleanup"
    /\ UNCHANGED <<config, upload, newTree, targetExists, target0, probe, backupFolder,
                   backupFolderExists, backup, backupZipExists, tempDir, tempExists,
                   temp, uploadExists, responses, err, replaceWrote>>
    /\ UNCHANGED <<accessResult, mvars>>

\* neither the folder nor the zip is there (or backupFolder is still '')
RollbackNoBackup ==
    /\ pc = "catch"
    /\ RollbackSource(backupFolder, backupFolderExists, backupZipExists) = "none"
    /\ restoreFrom' = "none"
    /\ logs' = Append(CatchLogs, "[ROLLBACK] WARNING: No backup found for rollback!")
    /\ pc' = "cleanup"
    /\ UNCHANGED <<config, upload, newTree, target0, tempDir, backupFolder, responses,
                   err, replaceWrote, restoreOk, history>>
    /\ HUnchangedDisk
    /\ UNCHANGED <<accessResult, mvars>>

\* res.status(500).json({success: false, logs, duration, error: e.message})
FailureResponse ==
    [status |-> 500, success |-> FALSE, logs |-> logs, duration |-> "seconds",
     error |-> err]

\* the silent cleanup of tempDir and of the uploaded archive, then the response
FailureRespond ==
    /\ pc = "cleanup"
    /\ \E cleaned \in BOOLEAN :
         IF cleaned
           THEN /\ tempExists' = FALSE
                /\ temp' = EmptyTree
                /\ uploadExists' = FALSE
           ELSE UNCHANGED <<tempExists, temp, uploadExists>>
    /\ responses' = Append(responses, FailureResponse)
    /\ pc' = "done"
    /\ UNCHANGED <<config, upload, newTree, targetExists, target, target0, probe,
                   backupFolder, backupFolderExists, backup, backupZipExists, tempDir,
                   logs, err, replaceWrote, restoreFrom, restoreOk, history>>
    /\ UNCHANGED <<accessResult, mvars>>

Next ==
    \/ RejectMissingConfig
    \/ ParseConfigThrows
    \/ FrameworkErrorResponse
    \/ UnhandledRejection
    \/ AcceptRequest
    \/ ReadUploadPath
    \/ AccessCheck
    \/ BackupOk
    \/ BackupFails
    \/ ExtractOk
    \/ ExtractUnsupported
    \/ ExtractFails
    \/ FindRootOk
    \/ FindRootFails
    \/ PreserveOk
    \/ PreserveFails
    \/ PreserveSkipped
    \/ ReplaceOk
    \/ ReplaceFails
    \/ RemoveTempOk
    \/ RemoveTempFails
    \/ CompressOk
    \/ CompressFails
    \/ FinishOk
    \/ RemoveUploadFails
    \/ RollbackRestores
    \/ RollbackFails
    \/ RollbackNoBackup
    \/ FailureRespond


Spec == Init /\ [][Next]_vars

\* every await of the handler settles and the handler continues
FairSpec == Spec /\ WF_vars(Next)

TypeOK ==
    /\ pc \in {"idle", "rejected", "hung", "try", "phase0", "phase1", "phase2",
               "findroot", "phase3", "phase4", "rmtemp", "phase5", "phase6",
               "catch", "cleanup", "done"}
    /\ config \in Configs
    /\ upload \in Uploads
    /\ target \in [Names -> {"none", "old", "new"}]
    /\ backupFolder \in {"", "set"}
    /\ restoreFrom \in {"notrun", "folder", "zip", "none"}
    /\ Len(responses) <= 1

(***************************************************************************)
(* Properties of the upgrade request handler                               *)
(***************************************************************************)
Ops == {history[i] : i \in DOMAIN history}

\* C1: no Replace copy and no rollback restore is performed on the target path
\* before backupWithStructure has returned successfully.
C1_BackupBeforeDestructive ==
    \A i \in DOMAIN history :
        history[i] \in {"replace", "restore"} =>
            \E j \in 1..(i - 1) : history[j] = "backup"

C1_Witness ==
    /\ pc = "done"
    /\ "replace" \in Ops
    /\ "restore" \in Ops

\* C2: once Backup has completed, a failure of a later step leads to the rollback,
\* which restores from the backup folder when it exists and otherwise from the
\* backup zip, and the run ends with a failure response.
C2_RollbackRan ==
    /\ pc = "done"
    /\ "restore" \in Ops
    /\ restoreFrom = (IF backupFolderExists THEN "folder"
                      ELSE IF backupZipExists THEN "zip" ELSE "none")
    /\ restoreFrom \in {"folder", "zip"}
    /\ Len(responses) = 1
    /\ responses[1].success = FALSE

C2_FailureLeadsToRollback ==
    (pc = "catch" /\ backupFolder # "") ~> C2_RollbackRan

C2_Witness ==
    /\ pc = "done"
    /\ err = "Failed to preserve critical item"
    /\ restoreFrom = "folder"
    /\ responses[1].success = FALSE

\* C3 (as claimed): after a Replace that failed with some new files written, at
\* the end of the run the backup folder exists, the target equals the backup file
\* for file, and the result has success = false and rollbackPerformed = true.
C3_ReplaceFailureRestoresExactly ==
    (pc = "done" /\ err = "replace failed" /\ replaceWrote # {}) =>
        /\ backupFolderExists
        /\ target = backup
        /\ responses[1].success = FALSE
        /\ "rollbackPerformed" \in DOMAIN responses[1]
        /\ responses[1].rollbackPerformed = TRUE

\* C4 (as claimed): with an unsupported archive extension the run fails before
\* Backup and before any extraction step, and the target path is never written.
C4_UnsupportedFormatFailsFirst ==
    (config.kind = "parsed" /\ upload = ".rar") =>
        /\ "backup" \notin Ops
        /\ ~backupFolderExists
        /\ tempDir = ""
        /\ ~tempExists
        /\ "restore" \notin Ops

\* C5 (as claimed): after a successful Replace, a failure of the removal of the
\* temporary directory or of the uploaded archive does not fail the run and
\* triggers no restore: success = true and the target holds the new version.
C5_CleanupFailureNotFatal ==
    (pc = "done" /\ err \in {"remove tempDir failed", "remove uploaded archive failed"}) =>
        /\ responses[1].success = TRUE
        /\ "restore" \notin Ops
        /\ \A n \in Present(newTree) \ PreservedNames : target[n] = "new"

\* the rollback outcome read from a response alone
RollbackOutcomeOf(r) ==
    IF "logs" \notin DOMAIN r THEN "none"
    ELSE LET lines == {r.logs[i] : i \in DOMAIN r.logs} IN
         IF "[CRITICAL] Rollback failed! Manual restoration required." \in lines
           THEN "failed"
         ELSE IF "[ROLLBACK] Successfully restored" \in lines THEN "restored"
         ELSE "none"

\* C6: the result of a failed run tells the rollback outcome: the results of a run
\* whose restore threw, of a run whose restore returned and of a successful run
\* are pairwise different, the outcome being readable from the result.
C6_RollbackOutcomeReported ==
    pc = "done" =>
        LET r == responses[1] IN
        /\ RollbackOutcomeOf(r) =
              (IF restoreFrom \in {"folder", "zip"}
                 THEN (IF restoreOk THEN "restored" ELSE "failed")
                 ELSE "none")
        /\ ("success" \in DOMAIN r /\ r.success) => restoreFrom = "notrun"
        /\ restoreFrom # "notrun" => (r.success = FALSE /\ r.error = err)

C6_Witness ==
    /\ pc = "done"
    /\ restoreFrom = "zip"
    /\ ~restoreOk
    /\ responses[1].success = FALSE

C8_EveryRequestAnswered ==
    pc \in {"done", "hung"} =>
        /\ Len(responses) = 1
        /\ "logs" \in DOMAIN responses[1]
        /\ responses[1].logs = logs
        /\ "duration" \in DOMAIN responses[1]

(***************************************************************************)
(* Apache httpd configuration merge (configMerger.mjs)                     *)
(***************************************************************************)
MaxDirs == 2

\* variant: the allow-list also names ServerTokens
APACHE_USER_DIRECTIVES_ServerTokens ==
    {"ServerName", "ServerAdmin", "ServerRoot", "DocumentRoot", "Listen",
     "ErrorLog", "CustomLog", "LogLevel", "LogFormat",
     "SSLCertificateFile", "SSLCertificateKeyFile", "SSLCertificateChainFile",
     "SSLCACertificateFile", "ProxyPass", "ProxyPassReverse",
     "Redirect", "RedirectMatch", "Alias", "ScriptAlias",
     "Directory", "VirtualHost", "IfModule", "LoadModule", "ServerTokens"}

APACHE_USER_DIRECTIVES ==
    {"ServerName", "ServerAdmin", "ServerRoot", "DocumentRoot", "Listen",
     "ErrorLog", "CustomLog", "LogLevel", "LogFormat",
     "SSLCertificateFile", "SSLCertificateKeyFile", "SSLCertificateChainFile",
     "SSLCACertificateFile", "ProxyPass", "ProxyPassReverse",
     "Redirect", "RedirectMatch", "Alias", "ScriptAlias",
     "Directory", "VirtualHost", "IfModule", "LoadModule"}

APACHE_SECURITY_DIRECTIVES ==
    {"SSLProtocol", "SSLCipherSuite", "SSLHonorCipherOrder",
     "Header", "ServerTokens", "ServerSignature", "TraceEnable",
     "FileETag", "Timeout", "LimitRequestBody", "KeepAlive"}

\* the directives the inputs are drawn from: a user key, a security key and a
\* key of neither list, each with two values
InputNames == {"Listen", "ServerTokens", "AddType"}
InputValues == {"v1", "v2"}
InputDirectives == [name : InputNames, value : InputValues]

SeqsUpTo(S, n) == UNION {[1..k -> S] : k \in 0..n}
Max(a, b) == IF a >= b THEN a ELSE b
Min(a, b) == IF a <= b THEN a ELSE b
Range(q) == {q[i] : i \in DOMAIN q}

\* a parsed configuration whose top level consists of directive lines
ConfigOf(dirs) == [EmptyConfig EXCEPT !.directives = dirs]

\* a line of a configuration text: its first token and the rest of the line
Line(n, v) == [name |-> n, value |-> v]
BlankLine == Line("", "")
Comment(text) == Line("#", text)

\* the first tokens that contain one of the userKeywords of hasUserContent
userKeywords ==
    {"ProxyPass", "ProxyPassReverse", "Redirect", "RedirectMatch", "Alias",
     "ScriptAlias", "SSLCertificateFile", "SSLCertificateKeyFile",
     "SSLCertificateChainFile", "Allow", "AllowOverride", "Deny"}

\* userKeywords.some(kw => content.includes(kw)), content being a block's lines
hasUserContent(content) == \E i \in DOMAIN content : content[i].name \in userKeywords

\* the module files of the default list; a LoadModule line carries its file in value
defaultModules ==
    {"mod_access_compat", "mod_actions", "mod_alias", "mod_allowmethods",
     "mod_auth_basic", "mod_authn_core", "mod_authn_file", "mod_authz_core",
     "mod_authz_groupfile", "mod_authz_host", "mod_authz_user", "mod_autoindex",
     "mod_dir", "mod_env", "mod_headers", "mod_include", "mod_log_config",
     "mod_mime", "mod_negotiation", "mod_setenvif"}

isDefaultModule(line) == line.value \in defaultModules

extractApacheUserSettings(cfg) ==
    [directives   |-> SelectSeq(cfg.directives,
                                LAMBDA d : d.name \in APACHE_USER_DIRECTIVES),
     virtualHosts |-> cfg.virtualHosts,
     directories  |-> SelectSeq(cfg.directories, LAMBDA dir : hasUserContent(dir.content)),
     modules      |-> SelectSeq(cfg.modules, LAMBDA mod : ~isDefaultModule(mod.line))]

\* variant: the callback assigns instead of comparing, so the first element matches
findIndexFirst(dirs, name) == IF dirs = <<>> THEN 0 ELSE 1

\* merged.directives.findIndex(d => d.name === userDir.name), 1-based, 0 for -1
findIndexByName(dirs, name) ==
    IF \E i \in DOMAIN dirs : dirs[i].name = name
      THEN CHOOSE i \in DOMAIN dirs :
             /\ dirs[i].name = name
             /\ \A j \in 1..(i - 1) : dirs[j].name # name
      ELSE 0

\* the forEach over userCustomizations.directives of mergeApacheSettings
RECURSIVE MergeUserDirectives(_, _)
MergeUserDirectives(dirs, userDirs) ==
    IF userDirs = <<>> THEN dirs
    ELSE LET userDir == Head(userDirs)
             existingIndex == findIndexByName(dirs, userDir.name)
         IN  IF userDir.name \in APACHE_SECURITY_DIRECTIVES
               THEN MergeUserDirectives(dirs, Tail(userDirs))
             ELSE IF existingIndex >= 1
               THEN MergeUserDirectives([dirs EXCEPT ![existingIndex] = userDir],
                                        Tail(userDirs))
             ELSE MergeUserDirectives(Append(dirs, userDir), Tail(userDirs))

mergeApacheSettings(newCfg, custom) ==
    [newCfg EXCEPT
       !.directives   = MergeUserDirectives(@, custom.directives),
       !.virtualHosts = @ \o custom.virtualHosts,
       !.directories  = @ \o custom.directories,
       !.modules      = @ \o custom.modules]

\* handler state while only the merge runs
HIdle ==
    /\ HInit
    /\ ~targetExists
    /\ newTree = [n \in Names |-> "new"]

\* mergeApacheConfig has parsed the old and the new httpd.conf
MInit ==
    /\ HIdle
    /\ TInitIdle
    /\ DInitIdle
    /\ XInitIdle
    /\ CInitIdle
    /\ \E od \in SeqsUpTo(InputDirectives, MaxDirs) : oldConfig = ConfigOf(od)
    /\ \E nd \in SeqsUpTo(InputDirectives, MaxDirs) : newConfig = ConfigOf(nd)
    /\ userCustomizations = EmptyCustomizations
    /\ mergedConfig = EmptyConfig
    /\ mpc = "parsed"

ExtractUserSettings ==
    /\ mpc = "parsed"
    /\ userCustomizations' = extractApacheUserSettings(oldConfig)
    /\ mpc' = "extracted"
    /\ UNCHANGED <<oldConfig, newConfig, mergedConfig, hvars, tvars, dvars, xvars, cvars>>

MergeSettings ==
    /\ mpc = "extracted"
    /\ mergedConfig' = mergeApacheSettings(newConfig, userCustomizations)
    /\ mpc' = "merged"
    /\ UNCHANGED <<oldConfig, newConfig, userCustomizations, hvars, tvars, dvars, xvars, cvars>>

MNext ==
    \/ ExtractUserSettings
    \/ MergeSettings

MergeSpec == MInit /\ [][MNext]_vars

\* the directives of a list that carry a given key, in order
WithName(dirs, k) == SelectSeq(dirs, LAMBDA d : d.name = k)

\* C9: for a key of the security deny-list that the old document sets to V_old
\* and the new document sets to V_new, the merged document has K = V_new and no
\* directive K = V_old; its directives with key K are those of the new document.
C9_SecurityWins ==
    mpc = "merged" =>
        \A k \in APACHE_SECURITY_DIRECTIVES :
            /\ WithName(mergedConfig.directives, k) = WithName(newConfig.directives, k)
            /\ \A o \in Range(oldConfig.directives), n \in Range(newConfig.directives) :
                 (o.name = k /\ n.name = k) =>
                    /\ n \in Range(mergedConfig.directives)
                    /\ o \notin Range(newConfig.directives) =>
                          o \notin Range(mergedConfig.directives)

C9_Witness ==
    /\ mpc = "merged"
    /\ oldConfig.directives = <<[name |-> "ServerTokens", value |-> "v1"],
                                [name |-> "Listen", value |-> "v1"]>>
    /\ newConfig.directives = <<[name |-> "ServerTokens", value |-> "v2"]>>
    /\ [name |-> "ServerTokens", value |-> "v2"] \in Range(mergedConfig.directives)

\* C10 (as claimed): every directive of the old document whose key is on the user
\* allow-list and absent from the new document is in the merged document, also
\* when the old document has several directives with that key.
C10_UserDirectivesPreserved ==
    mpc = "merged" =>
        \A o \in Range(oldConfig.directives) :
            (/\ o.name \in APACHE_USER_DIRECTIVES
             /\ \A n \in Range(newConfig.directives) : n.name # o.name)
            => o \in Range(mergedConfig.directives)

(***************************************************************************)
(* The httpd merge on configuration text: parseApacheConfig,               *)
(* extractApacheBlock, buildApacheConfig and the writes of                 *)
(* mergeApacheConfig.  A text is the sequence of its lines                 *)
(* (content.split('\n')); indexes are 1-based here, 0-based in the source. *)
(***************************************************************************)
MaxLines == 4

\* the tags of the parser that are a prefix of a line with the given first token
TagPrefixes(name) ==
    CASE name = "<DirectoryMatch" -> {"<Directory"}
      [] name \in {"<VirtualHost", "</VirtualHost>", "<Directory", "</Directory>",
                   "<IfModule", "</IfModule>", "LoadModule"} -> {name}
      [] OTHER -> {}

\* line.trim().startsWith(tag)
startsWith(line, tag) == tag \in TagPrefixes(line.name)

\* !line || line.startsWith('#')
isBlankOrComment(line) == line.name = "" \/ line.name = "#"

\* the while loop of extractApacheBlock: the index at which it stops
RECURSIVE BlockEndIndex(_, _, _, _, _)
BlockEndIndex(lines, i, depth, startTag, endTag) ==
    IF i > Len(lines) THEN i
    ELSE LET opened == IF startsWith(lines[i], startTag) THEN depth + 1 ELSE depth
             closed == IF startsWith(lines[i], endTag) THEN opened - 1 ELSE opened
         IN  IF closed = 0 THEN i
             ELSE BlockEndIndex(lines, i + 1, closed, startTag, endTag)

extractApacheBlock(lines, startIndex, startTag, endTag) ==
    LET endIndex == BlockEndIndex(lines, startIndex + 1, 1, startTag, endTag)
        last == IF endIndex > Len(lines) THEN Len(lines) ELSE endIndex
    IN  [content    |-> SubSeq(lines, startIndex, last),
         startIndex |-> startIndex,
         endIndex   |-> endIndex]

parseApacheDirective(line) ==
    [name |-> line.name, value |-> line.value, fullLine |-> line]

\* the while loop of parseApacheConfig, from line i on
RECURSIVE ParseLines(_, _, _)
ParseLines(lines, i, cfg) ==
    IF i > Len(lines) THEN cfg
    ELSE LET line == lines[i]
             vh == extractApacheBlock(lines, i, "<VirtualHost", "</VirtualHost>")
             dir == extractApacheBlock(lines, i, "<Directory", "</Directory>")
             ifm == extractApacheBlock(lines, i, "<IfModule", "</IfModule>")
         IN  IF isBlankOrComment(line)
               THEN ParseLines(lines, i + 1, cfg)
             ELSE IF startsWith(line, "LoadModule")
               THEN ParseLines(lines, i + 1,
                      [cfg EXCEPT !.modules = Append(@, [line |-> line, lineNum |-> i])])
             ELSE IF startsWith(line, "<VirtualHost")
               THEN ParseLines(lines, vh.endIndex + 1,
                      [cfg EXCEPT !.virtualHosts = Append(@, vh)])
             ELSE IF startsWith(line, "<Directory")
               THEN ParseLines(lines, dir.endIndex + 1,
                      [cfg EXCEPT !.directories = Append(@, dir)])
             ELSE IF startsWith(line, "<IfModule")
               THEN ParseLines(lines, ifm.endIndex + 1,
                      [cfg EXCEPT !.ifModules = Append(@, ifm)])
             ELSE ParseLines(lines, i + 1,
                      [cfg EXCEPT !.directives =
                          Append(@, [name |-> parseApacheDirective(line).name,
                                     value |-> parseApacheDirective(line).value,
                                     fullLine |-> parseApacheDirective(line).fullLine,
                                     lineNum |-> i])])

parseApacheConfig(content) == ParseLines(content, 1, EmptyConfig)

\* the values new Date().toISOString() takes
Times == {"2026-01-01T00:00:00.000Z", "2026-01-01T00:00:01.000Z"}

\* `Generated: ${new Date().toISOString()}`
GeneratedText(t) ==
    IF t = "2026-01-01T00:00:00.000Z" THEN "Generated: 2026-01-01T00:00:00.000Z"
    ELSE "Generated: 2026-01-01T00:00:01.000Z"

\* the lines of the blocks' content, block after block
RECURSIVE BlockLines(_)
BlockLines(blocks) ==
    IF blocks = <<>> THEN <<>> ELSE Head(blocks).content \o BlockLines(Tail(blocks))

\* one section of buildApacheConfig: title, body, empty line; nothing for an empty list
Section(title, items, body) ==
    IF Len(items) > 0 THEN <<Comment(title)>> \o body \o <<BlankLine>> ELSE <<>>

\* the lines of the text buildApacheConfig returns, t being the time of the call
buildApacheConfig(cfg, t) ==
    <<Comment("===="),
      Comment("Apache HTTP Server Configuration - Merged by Upgrade Tool"),
      Comment(GeneratedText(t)),
      Comment("===="),
      BlankLine>>
    \o Section("Load Modules", cfg.modules,
               [k \in DOMAIN cfg.modules |-> cfg.modules[k].line])
    \o Section("Server Configuration", cfg.directives,
               [k \in DOMAIN cfg.directives |-> cfg.directives[k].fullLine])
    \o Section("Conditional Configuration", cfg.ifModules, BlockLines(cfg.ifModules))
    \o Section("Directory Configuration", cfg.directories, BlockLines(cfg.directories))
    \o Section("Virtual Hosts", cfg.virtualHosts, BlockLines(cfg.virtualHosts))

\* a path is the sequence of its segments, relative to the installation root
dirname(p) == SubSeq(p, 1, Len(p) - 1)

\* path.join(path.dirname(outputPath), 'conf', 'extra', 'httpd-security-vapt.conf')
vaptPathOf(p) == dirname(p) \o <<"conf", "extra", "httpd-security-vapt.conf">>

\* the file the appended Include line names, relative to the server root
IncludeTarget == <<"conf", "extra", "httpd-security-vapt.conf">>

IncludeLine == Line("Include", "conf/extra/httpd-security-vapt.conf")

\* what mergeApacheConfig appends to mergedContent
IncludeSuffix ==
    <<BlankLine, Comment("Include VAPT Security Hardening"), IncludeLine, BlankLine>>

\* the directives of APACHE_VAPT_CONFIG that the merged texts also set
APACHE_VAPT_CONFIG ==
    <<Comment("APACHE HTTPD - VAPT SECURITY HARDENING"),
      Line("ServerTokens", "Prod"),
      Line("ServerSignature", "Off"),
      Line("TraceEnable", "Off")>>

\* the output paths: conf/httpd.conf as the preserve phase passes it, and a file
\* at the installation root
OutputPaths == {<<"conf", "httpd.conf">>, <<"httpd.conf">>}

\* the lines the old texts are made of
OldLines ==
    {Line("<VirtualHost", "*:80>"), Line("</VirtualHost>", ""),
     Line("<DirectoryMatch", "^/private>"), Line("</DirectoryMatch>", ""),
     Line("<IfModule", "ssl_module>"), Line("</IfModule>", "")}

Scenario1Old == <<Line("ServerName", "old.example.com"), Line("Listen", "8080")>>
Scenario1New ==
    <<Line("ServerName", "default"), Line("Listen", "80"), Line("ServerTokens", "Full")>>

\* content.split('\n') has at least one element
OldTexts == (SeqsUpTo(OldLines, MaxLines) \ {<<>>}) \cup {Scenario1Old}
NewTexts ==
    {<<BlankLine>>, <<Line("<VirtualHost", "*:80>"), Line("</VirtualHost>", "")>>,
     <<IncludeLine>>, Scenario1New}

\* mergeApacheConfig has read the old and the new httpd.conf
TInit ==
    /\ HIdle
    /\ DInitIdle
    /\ XInitIdle
    /\ CInitIdle
    /\ oldContent \in OldTexts
    /\ newContent \in NewTexts
    /\ outputPath = <<>>
    /\ vaptPath = <<>>
    /\ rebuilt = <<>>
    /\ finalContent = <<>>
    /\ newTreeFiles = {}
    /\ oldConfig = EmptyConfig
    /\ newConfig = EmptyConfig
    /\ userCustomizations = EmptyCustomizations
    /\ mergedConfig = EmptyConfig
    /\ mpc = "read"

\* the text is parsed and serialized again, with no merge step in between
Reserialize ==
    /\ mpc = "read"
    /\ \E t \in Times : rebuilt' = buildApacheConfig(parseApacheConfig(oldContent), t)
    /\ mpc' = "rebuilt"
    /\ UNCHANGED <<oldConfig, newConfig, userCustomizations, mergedConfig, hvars,
                   oldContent, newContent, outputPath, vaptPath, finalContent,
                   newTreeFiles, dvars, xvars, cvars>>

\* mergeApacheConfig, lines 134-135
ParseConfigs ==
    /\ mpc = "read"
    /\ oldConfig' = parseApacheConfig(oldContent)
    /\ newConfig' = parseApacheConfig(newContent)
    /\ mpc' = "parsed"
    /\ UNCHANGED <<userCustomizations, mergedConfig, hvars, tvars, dvars, xvars, cvars>>

\* mergeApacheConfig, lines 144-155: serialize, write the include file, append the
\* Include line, write the output file
WriteMerged ==
    /\ mpc = "merged"
    /\ \E t \in Times, p \in OutputPaths :
         /\ outputPath' = p
         /\ vaptPath' = vaptPathOf(p)
         /\ finalContent' = buildApacheConfig(mergedConfig, t) \o IncludeSuffix
         /\ newTreeFiles' = newTreeFiles \cup {vaptPathOf(p), p}
    /\ mpc' = "written"
    /\ UNCHANGED <<oldConfig, newConfig, userCustomizations, mergedConfig, hvars,
                   oldContent, newContent, rebuilt, dvars, xvars, cvars>>

\* conf/extra of the old installation: missing, as shipped, or with a file
\* httpd-security-vapt.conf the operator put there
OldExtraDirs ==
    {[exists |-> FALSE, files |-> {}],
     [exists |-> TRUE, files |-> {"httpd-ssl.conf"}],
     [exists |-> TRUE, files |-> {"httpd-ssl.conf", "httpd-security-vapt.conf"}]}

\* comprehensivePreserveHTTPD_SECURE after the merge of conf/httpd.conf: the merge
\* of conf/3dx.conf, when it takes place, writes the include file once more, at
\* path.join(dirname(<new>/conf/3dx.conf), 'conf', 'extra', ...); the copy-dir
\* items conf/SSL, htdocs, conf/extra and logs remove the directory of the new
\* tree and copy the one of the old installation, when the old installation has
\* it
PreserveDirectories ==
    /\ mpc = "written"
    /\ outputPath = <<"conf", "httpd.conf">>
    /\ \E merged3dx \in BOOLEAN, oldExtra \in OldExtraDirs :
         LET afterMerge == IF merged3dx
                             THEN newTreeFiles \cup {vaptPathOf(<<"conf", "3dx.conf">>),
                                                     <<"conf", "3dx.conf">>}
                             ELSE newTreeFiles
         IN  newTreeFiles' =
                 IF oldExtra.exists
                   THEN {f \in afterMerge : SubSeq(f, 1, 2) # <<"conf", "extra">>}
                        \cup {<<"conf", "extra", name>> : name \in oldExtra.files}
                   ELSE afterMerge
    /\ mpc' = "preserved"
    /\ UNCHANGED <<oldConfig, newConfig, userCustomizations, mergedConfig, hvars,
                   oldContent, newContent, outputPath, vaptPath, rebuilt, finalContent,
                   dvars, xvars, cvars>>

TNext ==
    \/ Reserialize
    \/ ParseConfigs
    \/ ExtractUserSettings
    \/ MergeSettings
    \/ WriteMerged
    \/ PreserveDirectories

TextSpec == TInit /\ [][TNext]_vars

(***************************************************************************)
(* Properties of the httpd merge on text                                   *)
(***************************************************************************)
\* the closing tag of each container the texts use
ClosingTag(name) ==
    CASE name = "<VirtualHost" -> "</VirtualHost>"
      [] name = "<DirectoryMatch" -> "</DirectoryMatch>"
      [] name = "<Directory" -> "</Directory>"
      [] name = "<IfModule" -> "</IfModule>"
      [] OTHER -> ""

\* every container is closed in order, and a VirtualHost stands at the top level
\* or inside IfModule containers only
RECURSIVE ValidFrom(_, _, _)
ValidFrom(lines, i, open) ==
    IF i > Len(lines) THEN open = <<>>
    ELSE LET name == lines[i].name
         IN  IF ClosingTag(name) # ""
               THEN /\ name = "<VirtualHost" =>
                          \A k \in DOMAIN open : open[k] = "</IfModule>"
                    /\ ValidFrom(lines, i + 1, <<ClosingTag(name)>> \o open)
             ELSE IF name \in {"</VirtualHost>", "</DirectoryMatch>", "</Directory>",
                              "</IfModule>"}
               THEN /\ open # <<>>
                    /\ Head(open) = name
                    /\ ValidFrom(lines, i + 1, Tail(open))
             ELSE ValidFrom(lines, i + 1, open)

ValidText(lines) == ValidFrom(lines, 1, <<>>)

\* the lines that open a VirtualHost block
VHStarts(lines) == {i \in DOMAIN lines : lines[i].name = "<VirtualHost"}

\* the VirtualHost block of a valid text that starts at line s, as text
VHBlockAt(lines, s) ==
    LET e == CHOOSE j \in s..Len(lines) :
                 /\ lines[j].name = "</VirtualHost>"
                 /\ \A k \in s..(j - 1) : lines[k].name # "</VirtualHost>"
    IN  SubSeq(lines, s, e)

\* the block's lines stand in the text, consecutively
ContainsBlock(text, block) ==
    \E k \in 0..(Len(text) - Len(block)) : SubSeq(text, k + 1, k + Len(block)) = block

\* C11 (as claimed): the merged httpd document has as many VirtualHost blocks as
\* the old and the new document together, and every VirtualHost block of the old
\* text stands verbatim in the merged text, whatever IfModule, Directory or
\* DirectoryMatch blocks surround it.
C11_VirtualHostsCarried ==
    (mpc = "written" /\ ValidText(oldContent) /\ ValidText(newContent)) =>
        /\ Cardinality(VHStarts(finalContent))
             = Cardinality(VHStarts(oldContent)) + Cardinality(VHStarts(newContent))
        /\ \A s \in VHStarts(oldContent) :
             ContainsBlock(finalContent, VHBlockAt(oldContent, s))

\* the merged text as the server reads it: the appended Include line stands for
\* the lines of the include file when that file is where the line says
RECURSIVE ExpandIncludes(_, _)
ExpandIncludes(text, written) ==
    IF text = <<>> THEN <<>>
    ELSE IF Head(text) = IncludeLine /\ written = IncludeTarget
      THEN APACHE_VAPT_CONFIG \o ExpandIncludes(Tail(text), written)
    ELSE <<Head(text)>> \o ExpandIncludes(Tail(text), written)

\* the value in force for a directive: the one of its last line, "" when it has none
EffectiveValue(text, k) ==
    LET at == {i \in DOMAIN text : text[i].name = k}
    IN  IF at = {} THEN ""
        ELSE text[CHOOSE i \in at : \A j \in at : j <= i].value

\* C12 (as claimed): merging the old text 'ServerName old.example.com',
\* 'Listen 8080' with the new text 'ServerName default', 'Listen 80',
\* 'ServerTokens Full' gives a result with ServerName old.example.com, Listen 8080
\* and ServerTokens Prod.
C12_Scenario1 ==
    (mpc = "written" /\ oldContent = Scenario1Old /\ newContent = Scenario1New) =>
        LET result == ExpandIncludes(finalContent, vaptPath)
        IN  /\ EffectiveValue(result, "ServerName") = "old.example.com"
            /\ EffectiveValue(result, "Listen") = "8080"
            /\ EffectiveValue(result, "ServerTokens") = "Prod"

\* C14 (as claimed): the final text of mergeApacheConfig has the line
\* 'Include conf/extra/httpd-security-vapt.conf' exactly once, also when the new
\* version's text already has it.
C14_IncludeOnce ==
    mpc = "written" =>
        Cardinality({i \in DOMAIN finalContent : finalContent[i] = IncludeLine}) = 1

\* C17 (as claimed): serializing the parsed text gives the lines of the text, in
\* the same order, nothing added, dropped or reordered.
C17_RoundTrip ==
    (mpc = "rebuilt" /\ ValidText(oldContent)) => rebuilt = oldContent

\* C16: the user allow-list and the security deny-list of httpd share no key, so
\* no directive extracted as a user customization is one the merge skips as a
\* security directive.  (The Tomcat and JDK merges have no such tables.)
C16_ListsDisjoint ==
    /\ APACHE_USER_DIRECTIVES \cap APACHE_SECURITY_DIRECTIVES = {}
    /\ mpc \in {"extracted", "merged"} =>
         \A d \in Range(userCustomizations.directives) :
             /\ d.name \in APACHE_USER_DIRECTIVES
             /\ d.name \notin APACHE_SECURITY_DIRECTIVES

C16_Witness ==
    /\ mpc = "extracted"
    /\ \E d \in Range(oldConfig.directives) : d.name \in APACHE_SECURITY_DIRECTIVES
    /\ \E d \in Range(oldConfig.directives) : d.name \in APACHE_USER_DIRECTIVES
    /\ userCustomizations.directives # <<>>

(***************************************************************************)
(* generateDiffReport: the positional diff of two texts and its report     *)
(***************************************************************************)
MaxDiffLines == 2
MaxCalls == 2

\* changes.modified.slice(0, 50)
ModifiedLimit == 50

\* oldLines[i] || ''
lineAt(lines, i) == IF i \in DOMAIN lines THEN lines[i] ELSE BlankLine

\* variant: the else-if branch for removed lines is missing
changeKindNoRemoved(oldLine, newLine) ==
    IF oldLine = BlankLine /\ newLine # BlankLine THEN "added" ELSE "modified"

\* the branch of the loop body for two lines that differ
changeKind(oldLine, newLine) ==
    IF oldLine = BlankLine /\ newLine # BlankLine THEN "added"
    ELSE IF oldLine # BlankLine /\ newLine = BlankLine THEN "removed"
    ELSE "modified"

\* the line indexes the for loop of generateDiffReport pushes under a kind, in order
ChangedLines(oldLines, newLines, kind) ==
    SelectSeq([i \in 1..Max(Len(oldLines), Len(newLines)) |-> i],
              LAMBDA i : /\ lineAt(oldLines, i) # lineAt(newLines, i)
                         /\ changeKind(lineAt(oldLines, i), lineAt(newLines, i)) = kind)

\* changes, as the for loop of generateDiffReport leaves it
DiffChanges(oldLines, newLines) ==
    LET added == ChangedLines(oldLines, newLines, "added")
        removed == ChangedLines(oldLines, newLines, "removed")
        modified == ChangedLines(oldLines, newLines, "modified")
    IN  [added    |-> [k \in DOMAIN added |->
                         [line |-> added[k], content |-> lineAt(newLines, added[k])]],
         removed  |-> [k \in DOMAIN removed |->
                         [line |-> removed[k], content |-> lineAt(oldLines, removed[k])]],
         modified |-> [k \in DOMAIN modified |->
                         [line |-> modified[k],
                          old |-> lineAt(oldLines, modified[k]),
                          new |-> lineAt(newLines, modified[k])]]]

\* the report generateDiffReport writes for the changes found, t being the time
\* of the call: its header, its three lists of entries and its statistics
DiffReport(oldLines, newLines, ch, t) ==
    [generated      |-> GeneratedText(t),
     oldLines       |-> Len(oldLines),
     newLines       |-> Len(newLines),
     lineDifference |-> Len(newLines) - Len(oldLines),
     added          |-> ch.added,
     removed        |-> ch.removed,
     modified       |-> SubSeq(ch.modified, 1, Min(Len(ch.modified), ModifiedLimit)),
     more           |-> IF Len(ch.modified) > ModifiedLimit
                          THEN Len(ch.modified) - ModifiedLimit ELSE 0,
     statistics     |-> [added    |-> Len(ch.added),
                         removed  |-> Len(ch.removed),
                         modified |-> Len(ch.modified),
                         total    |-> Len(ch.added) + Len(ch.removed) + Len(ch.modified)]]

\* the texts compared: all short ones, and texts of equal lines long enough to
\* pass the limit
DiffTexts ==
    LET lines == {Line("Listen", "80"), Line("Listen", "8080")}
    IN  (SeqsUpTo({BlankLine} \cup lines, MaxDiffLines) \ {<<>>})
        \cup {[i \in 1..n |-> l] : l \in lines, n \in {ModifiedLimit, ModifiedLimit + 1}}

DInit ==
    /\ HIdle
    /\ oldContent \in DiffTexts
    /\ newContent \in DiffTexts
    /\ outputPath = <<>>
    /\ vaptPath = <<>>
    /\ rebuilt = <<>>
    /\ finalContent = <<>>
    /\ newTreeFiles = {}
    /\ oldConfig = EmptyConfig
    /\ newConfig = EmptyConfig
    /\ userCustomizations = EmptyCustomizations
    /\ mergedConfig = EmptyConfig
    /\ mpc = "diff"
    /\ DInitIdle
    /\ XInitIdle
    /\ CInitIdle

\* one call of generateDiffReport(oldContent, newContent, reportPath, logs)
generateDiffReport ==
    /\ mpc = "diff"
    /\ Len(reports) < MaxCalls
    /\ \E t \in Times :
         LET ch == DiffChanges(oldContent, newContent)
         IN  /\ changes' = ch
             /\ reports' = Append(reports, DiffReport(oldContent, newContent, ch, t))
    /\ UNCHANGED <<oldConfig, newConfig, userCustomizations, mergedConfig, mpc, hvars,
                   tvars, xvars, cvars>>

DNext == generateDiffReport

DiffSpec == DInit /\ [][DNext]_vars

(***************************************************************************)
(* Properties of the diff report                                           *)
(***************************************************************************)
\* C18 (as claimed): two calls of generateDiffReport with the same old and the
\* same new text, at any two times, write identical reports.
C18_ReportDeterministic ==
    \A i, j \in DOMAIN reports : reports[i] = reports[j]

\* the line indexes at which the two texts differ
DiffIndexes(oldLines, newLines) ==
    {i \in 1..Max(Len(oldLines), Len(newLines)) : lineAt(oldLines, i) # lineAt(newLines, i)}

\* the kind the claim gives a differing index
KindAt(oldLines, newLines, i) ==
    IF lineAt(oldLines, i) = BlankLine THEN "added"
    ELSE IF lineAt(newLines, i) = BlankLine THEN "removed"
    ELSE "modified"

\* the recorded changes, each with its kind
Recorded(ch) ==
    {<<"added", ch.added[k]>> : k \in DOMAIN ch.added}
    \cup {<<"removed", ch.removed[k]>> : k \in DOMAIN ch.removed}
    \cup {<<"modified", ch.modified[k]>> : k \in DOMAIN ch.modified}

\* every differing index is recorded once, under its kind, and nothing else is;
\* the statistics of the report count the differing indexes
ClassifiedOnce(oldLines, newLines, ch, report) ==
    /\ Len(ch.added) + Len(ch.removed) + Len(ch.modified)
         = Cardinality(DiffIndexes(oldLines, newLines))
    /\ \A c \in Recorded(ch) : c[2].line \in DiffIndexes(oldLines, newLines)
    /\ \A i \in DiffIndexes(oldLines, newLines) :
         /\ Cardinality({c \in Recorded(ch) : c[2].line = i}) = 1
         /\ \A c \in Recorded(ch) :
              c[2].line = i =>
                /\ c[1] = KindAt(oldLines, newLines, i)
                /\ c[1] = "added" => c[2].content = lineAt(newLines, i)
                /\ c[1] = "removed" => c[2].content = lineAt(oldLines, i)
                /\ c[1] = "modified" => /\ c[2].old = lineAt(oldLines, i)
                                        /\ c[2].new = lineAt(newLines, i)
    /\ report.statistics.added + report.statistics.removed + report.statistics.modified
         = Cardinality(DiffIndexes(oldLines, newLines))
    /\ report.statistics.total = Cardinality(DiffIndexes(oldLines, newLines))

MaxConns == 1
MaxHosts == 1

\* obj[attr], "" for undefined
Get(obj, attr) == IF attr \in DOMAIN obj THEN obj[attr] ELSE ""

\* Object.assign(obj, source): the attributes of source, then those of obj that
\* source does not set
Assign(obj, source) == source @@ obj

\* the values Math.random() gives the shutdown command when the module loads
ShutdownCommands == {"SHUTDOWN_k3x9", "SHUTDOWN_p07q"}

\* TOMCAT_VAPT_SETTINGS.valve
ErrorReportValve == [className |-> "org.apache.catalina.valves.ErrorReportValve",
                     showReport |-> "false", showServerInfo |-> "false"]

TOMCAT_VAPT_SETTINGS ==
    [server    |-> ("port" :> "-1" @@ "shutdown" :> shutdown),
     connector |-> ("maxThreads" :> "150" @@ "minSpareThreads" :> "25"
                    @@ "connectionTimeout" :> "20000" @@ "maxHttpHeaderSize" :> "8192"
                    @@ "maxParameterCount" :> "1000" @@ "compression" :> "on"
                    @@ "compressionMinSize" :> "2048" @@ "server" :> "Apache"
                    @@ "xpoweredBy" :> "false" @@ "SSLEnabled" :> "true"
                    @@ "sslProtocol" :> "TLS"
                    @@ "sslEnabledProtocols" :> "TLSv1.2,TLSv1.3"
                    @@ "ciphers" :> "TLS_ECDHE_RSA_WITH_AES_128_GCM_SHA256,TLS_ECDHE_RSA_WITH_AES_256_GCM_SHA384"
                    @@ "SSLHonorCipherOrder" :> "true" @@ "URIEncoding" :> "UTF-8"
                    @@ "useBodyEncodingForURI" :> "true" @@ "allowTrace" :> "false"
                    @@ "maxPostSize" :> "2097152" @@ "maxSavePostSize" :> "4096"
                    @@ "secure" :> "true" @@ "scheme" :> "https"),
     valve     |-> ErrorReportValve]

\* the connectors of the input documents
ConnSSL8443 == ("port" :> "8443" @@ "SSLEnabled" :> "true")
ConnPlain8443 == ("port" :> "8443")
OldConnectors == {ConnSSL8443, ("port" :> "9090"), ("port" :> "8080")}
NewConnectors == {ConnPlain8443, ("port" :> "8080")}

\* the hosts of the input documents: name, Valve elements and the path of each
\* Context element
OldHosts ==
    {[name |-> "localhost", Valve |-> <<>>, Context |-> <<"/app">>],
     [name |-> "app.example.com", Valve |-> <<>>, Context |-> <<>>],
     [name |-> "app.example.com",
      Valve |-> <<[className |-> "org.apache.catalina.valves.AccessLogValve",
                   showReport |-> "", showServerInfo |-> ""]>>,
      Context |-> <<"/portal">>]}
NewHosts ==
    {[name |-> "localhost", Valve |-> <<>>, Context |-> <<>>],
     [name |-> "localhost", Valve |-> <<ErrorReportValve>>, Context |-> <<>>]}

\* the attributes of Server as shipped
ServerAsShipped == ("port" :> "8005" @@ "shutdown" :> "SHUTDOWN")

\* the parsed document with its objects in place of the references
Deep(doc, h) ==
    [Server    |-> doc.Server,
     Connector |-> [k \in DOMAIN doc.Connector |-> h[doc.Connector[k]]],
     Host      |-> [k \in DOMAIN doc.Host |-> h[doc.Host[k]]]]

\* references n+1 .. n+k, in order
RefsFrom(n, k) == [i \in 1..k |-> n + i]

\* the connector is one the operator configured
isCustomConnector(conn) ==
    LET port == Get(conn, "port")
        isSSL == Get(conn, "SSLEnabled") = "true" \/ Get(conn, "secure") = "true"
        isCustomPort == port # "" /\ port \notin {"8080", "8009", "8005", "8443"}
    IN  isSSL \/ isCustomPort \/ Get(conn, "protocol") # ""

\* settings.contexts holds the contexts of every host, custom or not; resources
\* and valves of settings are filled or left empty and read by nothing
extractTomcatUserSettings(cfg, h) ==
    LET RECURSIVE contextsOf(_)
        contextsOf(refs) == IF refs = <<>> THEN <<>>
                            ELSE h[Head(refs)].Context \o contextsOf(Tail(refs))
    IN  [connectors |-> SelectSeq(cfg.Connector, LAMBDA r : isCustomConnector(h[r])),
         hosts      |-> SelectSeq(cfg.Host,
                                  LAMBDA r : h[r].name # "" /\ h[r].name # "localhost"),
         contexts   |-> contextsOf(cfg.Host)]

\* service.Connector.findIndex(c => c['@_port'] === port), 1-based, 0 for -1
findIndexByPort(refs, h, port) ==
    IF \E i \in DOMAIN refs : Get(h[refs[i]], "port") = port
      THEN CHOOSE i \in DOMAIN refs :
             /\ Get(h[refs[i]], "port") = port
             /\ \A j \in 1..(i - 1) : Get(h[refs[j]], "port") # port
      ELSE 0

\* the attributes with a defined value
Defined(obj) == [a \in {b \in DOMAIN obj : obj[b] # ""} |-> obj[a]]

\* {...userConn, '@_sslProtocol': existing || user, '@_ciphers': existing || user}
mergedConnector(existing, userConn) ==
    Defined(("sslProtocol" :> (IF Get(existing, "sslProtocol") # ""
                                 THEN Get(existing, "sslProtocol")
                                 ELSE Get(userConn, "sslProtocol"))
             @@ "ciphers" :> (IF Get(existing, "ciphers") # ""
                                THEN Get(existing, "ciphers")
                                ELSE Get(userConn, "ciphers")))
            @@ userConn)

\* the forEach over userSettings.connectors: st is the Connector array and the heap
RECURSIVE applyUserConnectors(_, _)
applyUserConnectors(st, userConns) ==
    IF userConns = <<>> THEN st
    ELSE LET userConn == Head(userConns)
             existingIdx == findIndexByPort(st.refs, st.heap, Get(st.heap[userConn], "port"))
         IN  IF existingIdx >= 1
               THEN applyUserConnectors(
                      [refs |-> [st.refs EXCEPT ![existingIdx] = Len(st.heap) + 1],
                       heap |-> Append(st.heap,
                                       mergedConnector(st.heap[st.refs[existingIdx]],
                                                       st.heap[userConn]))],
                      Tail(userConns))
             ELSE applyUserConnectors([refs |-> Append(st.refs, userConn), heap |-> st.heap],
                                      Tail(userConns))

\* the forEach over userSettings.hosts: a host is pushed when no host has its name
RECURSIVE applyUserHosts(_, _, _)
applyUserHosts(refs, h, userHosts) ==
    IF userHosts = <<>> THEN refs
    ELSE IF \E i \in DOMAIN refs : h[refs[i]].name = h[Head(userHosts)].name
      THEN applyUserHosts(refs, h, Tail(userHosts))
    ELSE applyUserHosts(Append(refs, Head(userHosts)), h, Tail(userHosts))

\* applyTomcatUserSettings(newConfig, userSettings): the document and the heap after
\* it; settings.contexts is not read
applyTomcatUserSettings(cfg, h, settings) ==
    LET conns == applyUserConnectors([refs |-> cfg.Connector, heap |-> h],
                                     settings.connectors)
    IN  [config |-> [cfg EXCEPT !.Connector = conns.refs,
                                !.Host = applyUserHosts(@, h, settings.hosts)],
         heap   |-> conns.heap]

\* v['@_className']?.includes('ErrorReportValve')
isErrorReportValve(v) == v.className = "org.apache.catalina.valves.ErrorReportValve"

\* variant: the valve is pushed without looking for one
hardenHostAlways(host) ==
    [host EXCEPT !.Valve = Append(@, TOMCAT_VAPT_SETTINGS.valve)]

\* the body of hosts.forEach in applyTomcatVAPT
hardenHost(host) ==
    IF \E k \in DOMAIN host.Valve : isErrorReportValve(host.Valve[k])
      THEN host
      ELSE [host EXCEPT !.Valve = Append(@, TOMCAT_VAPT_SETTINGS.valve)]

\* applyTomcatVAPT(config): the document and the heap after it
applyTomcatVAPT(cfg, h) ==
    [config |-> [cfg EXCEPT !.Server = Assign(@, TOMCAT_VAPT_SETTINGS.server)],
     heap   |-> [r \in DOMAIN h |->
                   IF r \in Range(cfg.Connector)
                     THEN Assign(h[r], TOMCAT_VAPT_SETTINGS.connector)
                   ELSE IF r \in Range(cfg.Host)
                     THEN hardenHost(h[r])
                   ELSE h[r]]]

\* mergeTomcatConfig has parsed the old and the new server.xml
XInit ==
    /\ CInitIdle
    /\ HIdle
    /\ TInitIdle
    /\ DInitIdle
    /\ oldConfig = EmptyConfig
    /\ newConfig = EmptyConfig
    /\ userCustomizations = EmptyCustomizations
    /\ mergedConfig = EmptyConfig
    /\ mpc = "off"
    /\ shutdown \in ShutdownCommands
    /\ \E oc \in SeqsUpTo(OldConnectors, MaxConns), nc \in SeqsUpTo(NewConnectors, MaxConns),
          oh \in SeqsUpTo(OldHosts, MaxHosts), nh \in SeqsUpTo(NewHosts, MaxHosts) :
         /\ heap = oc \o nc \o oh \o nh
         /\ oldXmlConfig = [Server    |-> ServerAsShipped,
                            Connector |-> RefsFrom(0, Len(oc)),
                            Host      |-> RefsFrom(Len(oc) + Len(nc), Len(oh))]
         /\ newXmlConfig = [Server    |-> ServerAsShipped,
                            Connector |-> RefsFrom(Len(oc), Len(nc)),
                            Host      |-> RefsFrom(Len(oc) + Len(nc) + Len(oh), Len(nh))]
    /\ userSettings = NoSettings
    /\ before = [old |-> Deep(oldXmlConfig, heap), new |-> Deep(newXmlConfig, heap)]
    /\ once = EmptyDocument
    /\ outputIsNew \in BOOLEAN
    /\ outputFile = IF outputIsNew THEN [exists |-> TRUE, content |-> before.new] ELSE NoFile
    /\ mergeResult = NoResult
    /\ xpc = "parsed"
    /\ sidecar = FALSE
    /\ preserve = IF outputIsNew THEN "item" ELSE "off"

XUnchanged == UNCHANGED <<oldConfig, newConfig, userCustomizations, mergedConfig, mpc,
                          hvars, tvars, dvars, cvars, shutdown, before, outputIsNew>>

\* mergeTomcatConfig, line 467
ExtractTomcatUserSettings ==
    /\ xpc = "parsed"
    /\ userSettings' = extractTomcatUserSettings(oldXmlConfig, heap)
    /\ xpc' = "extracted"
    /\ XUnchanged
    /\ UNCHANGED <<sidecar, preserve>>
    /\ UNCHANGED <<heap, oldXmlConfig, newXmlConfig, once, outputFile, mergeResult>>

\* mergeTomcatConfig, line 470
ApplyTomcatUserSettings ==
    /\ xpc = "extracted"
    /\ LET r == applyTomcatUserSettings(newXmlConfig, heap, userSettings)
       IN  /\ newXmlConfig' = r.config
           /\ heap' = r.heap
    /\ xpc' = "applied"
    /\ XUnchanged
    /\ UNCHANGED <<sidecar, preserve>>
    /\ UNCHANGED <<oldXmlConfig, userSettings, once, outputFile, mergeResult>>

\* mergeTomcatConfig, line 473
ApplyTomcatVAPT ==
    /\ xpc = "applied"
    /\ LET r == applyTomcatVAPT(newXmlConfig, heap)
       IN  /\ newXmlConfig' = r.config
           /\ heap' = r.heap
           /\ once' = Deep(r.config, r.heap)
    /\ xpc' = "hardened"
    /\ XUnchanged
    /\ UNCHANGED <<sidecar, preserve>>
    /\ UNCHANGED <<oldXmlConfig, userSettings, outputFile, mergeResult>>

\* applyTomcatVAPT applied to the hardened document once more
ApplyTomcatVAPTAgain ==
    /\ xpc = "hardened"
    /\ LET r == applyTomcatVAPT(newXmlConfig, heap)
       IN  /\ newXmlConfig' = r.config
           /\ heap' = r.heap
    /\ xpc' = "hardened twice"
    /\ XUnchanged
    /\ UNCHANGED <<sidecar, preserve>>
    /\ UNCHANGED <<oldXmlConfig, userSettings, once, outputFile, mergeResult>>

\* mergeTomcatConfig, line 474: the first statement of apply3DSpaceVAPT calls
\* logStep, which configMerger.mjs neither defines nor imports, so the call throws
\* a ReferenceError; lines 476-504 of mergeTomcatConfig are never reached and
\* control goes to the catch clause of smartMergeConfiguration
apply3DSpaceVAPT ==
    /\ xpc = "hardened"
    /\ xpc' = "catch"
    /\ XUnchanged
    /\ UNCHANGED <<sidecar, preserve>>
    /\ UNCHANGED <<heap, oldXmlConfig, newXmlConfig, userSettings, once, outputFile,
                   mergeResult>>

\* smartMergeConfiguration, lines 1212-1225: fs.copy(newConfigPath, outputPath) and
\* fs.copy(oldConfigPath, outputPath + '.old-backup') both return, and the result
\* says merged: false, fallback: true.  fs-extra's copy rejects with 'Source and
\* destination must not be the same.' when both paths name one file, so the
\* first copy returns only when outputPath is not newConfigPath
FallbackCopies ==
    /\ xpc = "catch"
    /\ ~outputIsNew
    /\ outputFile' = [exists |-> TRUE, content |-> before.new]
    /\ sidecar' = TRUE
    /\ mergeResult' = [returned |-> TRUE, threw |-> FALSE, merged |-> FALSE,
                       fallback |-> TRUE]
    /\ xpc' = "done"
    /\ XUnchanged
    /\ UNCHANGED <<heap, oldXmlConfig, newXmlConfig, userSettings, once, preserve>>

\* smartMergeConfiguration, lines 1226-1229: a copy of the fallback throws and the
\* error of the merge is thrown again.  The first copy throws whenever outputPath
\* is newConfigPath; either copy can throw on an I/O error
FallbackFails ==
    /\ xpc = "catch"
    /\ \E firstCopied \in IF outputIsNew THEN {FALSE} ELSE BOOLEAN :
         outputFile' = IF firstCopied THEN [exists |-> TRUE, content |-> before.new]
                                      ELSE outputFile
    /\ mergeResult' = [returned |-> FALSE, threw |-> TRUE, merged |-> FALSE,
                       fallback |-> FALSE]
    /\ xpc' = "done"
    /\ XUnchanged
    /\ UNCHANGED <<heap, oldXmlConfig, newXmlConfig, userSettings, once, sidecar, preserve>>

\* the items of comprehensivePreserveTomEE_SECURE with type 'merge'
TomEEMergeItems == {[path |-> "conf/server.xml", critical |-> TRUE],
                    [path |-> "conf/tomee.xml", critical |-> TRUE]}

\* comprehensivePreserveTomEE_SECURE, lines 704-733: after smartMergeConfiguration
\* has returned, mergedCount or preservedCount is incremented and the loop goes
\* to the next item; when it has thrown, the catch clause throws 'Failed to
\* preserve critical configuration' for a critical item and skips any other
PreserveItemEnds ==
    /\ xpc = "done"
    /\ preserve = "item"
    /\ \E item \in TomEEMergeItems :
         preserve' = IF mergeResult.returned THEN "next item"
                     ELSE IF item.critical THEN "aborted"
                     ELSE "next item"
    /\ XUnchanged
    /\ UNCHANGED <<heap, oldXmlConfig, newXmlConfig, userSettings, once, outputFile,
                   mergeResult, xpc, sidecar>>

XNext ==
    \/ ExtractTomcatUserSettings
    \/ ApplyTomcatUserSettings
    \/ ApplyTomcatVAPT
    \/ ApplyTomcatVAPTAgain
    \/ apply3DSpaceVAPT
    \/ FallbackCopies
    \/ FallbackFails
    \/ PreserveItemEnds

TomcatSpec == XInit /\ [][XNext]_vars

(***************************************************************************)
(* Properties of the Tomcat merge                                          *)
(***************************************************************************)
\* the connector has the hardening cipher and protocol attributes
HasHardenedSSL(conn) ==
    /\ Get(conn, "ciphers") = TOMCAT_VAPT_SETTINGS.connector["ciphers"]
    /\ Get(conn, "sslProtocol") = TOMCAT_VAPT_SETTINGS.connector["sslProtocol"]
    /\ Get(conn, "sslEnabledProtocols") = TOMCAT_VAPT_SETTINGS.connector["sslEnabledProtocols"]

\* C13 (as claimed): when smartMergeConfiguration has merged an old server.xml
\* with a Connector port="8443" SSLEnabled="true" and a new server.xml with a
\* Connector port="8443" without SSL attribute, the file at the output path is
\* the merged file: it has a Connector with port="8443", SSLEnabled="true" and
\* the hardening cipher and protocol attributes.
C13_Scenario2 ==
    (/\ xpc = "done"
     /\ before.old.Connector = <<ConnSSL8443>>
     /\ before.new.Connector = <<ConnPlain8443>>)
    => /\ outputFile.exists
       /\ \E k \in DOMAIN outputFile.content.Connector :
            LET conn == outputFile.content.Connector[k]
            IN  /\ Get(conn, "port") = "8443"
                /\ Get(conn, "SSLEnabled") = "true"
                /\ HasHardenedSSL(conn)

\* C15: applying applyTomcatVAPT to a document that it has hardened leaves the
\* document as it is: no server or connector attribute changes or is added and
\* no host gets a second ErrorReportValve.
C15_HardeningIdempotent ==
    xpc = "hardened twice" =>
        /\ Deep(newXmlConfig, heap) = once
        /\ \A k \in DOMAIN newXmlConfig.Host :
             LET valves == heap[newXmlConfig.Host[k]].Valve
             IN  Cardinality({v \in DOMAIN valves : isErrorReportValve(valves[v])}) = 1

C15_Witness ==
    /\ xpc = "hardened twice"
    /\ Len(newXmlConfig.Connector) = 2
    /\ \E k \in DOMAIN newXmlConfig.Host : heap[newXmlConfig.Host[k]].name = "app.example.com"
    /\ \E k \in DOMAIN before.new.Host : before.new.Host[k].Valve = <<>>
    /\ HasHardenedSSL(heap[newXmlConfig.Connector[1]])

\* C20 (as claimed): after applyTomcatUserSettings and applyTomcatVAPT the parsed
\* old document and the parsed new document the caller holds are what they were
\* before the merge.
C20_DocumentsNotMutated ==
    xpc = "hardened" =>
        /\ Deep(oldXmlConfig, heap) = before.old
        /\ Deep(newXmlConfig, heap) = before.new

\* C21 (as claimed): when the merge of a configuration file has failed in a call
\* of the preserve phase (outputPath is the new version's file path), the new
\* version's file is in place, the old file is saved as the '.old-backup'
\* sidecar, smartMergeConfiguration has returned merged = false with
\* fallback = true, and the preserve phase goes on to the next item.
C21_FallbackContinues ==
    (outputIsNew /\ xpc = "done" /\ preserve # "item")
    => /\ outputFile = [exists |-> TRUE, content |-> before.new]
       /\ sidecar
       /\ mergeResult.returned
       /\ ~mergeResult.merged
       /\ mergeResult.fallback
       /\ preserve = "next item"

\* the merged document has a Host with the name and the Context elements of host
HostCarried(host) ==
    \E k \in DOMAIN newXmlConfig.Host :
        /\ heap[newXmlConfig.Host[k]].name = host.name
        /\ heap[newXmlConfig.Host[k]].Context = host.Context

\* C22 (as claimed): in the merged document of the Tomcat merge every Host of the
\* old document is present with its Context elements, also the 'localhost' Host
\* and a Host whose name the new document has as well.
C22_HostsAndContextsCarried ==
    xpc = "hardened" =>
        \A k \in DOMAIN before.old.Host : HostCarried(before.old.Host[k])

(***************************************************************************)
(* Two upgrade requests in one server process.  Each request is followed   *)
(* through the steps of app.post('/api/upgrade') that name, create, read   *)
(* or remove its backup folder and its temporary extraction directory; the *)
(* two requests have different target paths, the steps interleave at the   *)
(* awaits of the handler.                                                  *)
(***************************************************************************)
MaxClock == 1

\* now(): the time as YYYYMMDDhhmmss, one value per second
now == clock

\* config.backupPath of a request
BackupPaths == {"D:/backups", "E:/backups"}

CInit ==
    /\ HIdle
    /\ TInitIdle
    /\ DInitIdle
    /\ XInitIdle
    /\ oldConfig = EmptyConfig
    /\ newConfig = EmptyConfig
    /\ userCustomizations = EmptyCustomizations
    /\ mergedConfig = EmptyConfig
    /\ mpc = "off"
    /\ clock = 0
    /\ run \in [Runs -> [pc : {"accepted"}, toolType : ToolTypes, backupPath : BackupPaths,
                         backupFolder : {<<>>}, tempDir : {<<>>}]]
    /\ uses = {}
    /\ SInitIdle

CUnchanged == UNCHANGED <<hvars, oldConfig, newConfig, userCustomizations, mergedConfig, mpc,
                          tvars, dvars, xvars, slog, stream, client, joined, spc, jdk>>

\* request r creates, reads, writes or removes the directory
Use(r, dir) == uses' = uses \cup {[path |-> dir, run |-> r]}

\* seconds pass while a request awaits
Tick ==
    /\ clock < MaxClock
    /\ clock' = clock + 1
    /\ UNCHANGED <<run, uses>>
    /\ CUnchanged

\* backupWithStructure: path.join(userBackupRoot, `${toolSanitized}_${stamp}`),
\* ensureDir and copy of the installation into it
RunBackup ==
    /\ \E r \in Runs :
         /\ run[r].pc = "accepted"
         /\ LET backupFolder_ == <<run[r].backupPath, run[r].toolType, now>>
            IN  /\ run' = [run EXCEPT ![r].backupFolder = backupFolder_,
                                      ![r].pc = "backed up"]
                /\ Use(r, backupFolder_)
    /\ UNCHANGED clock
    /\ CUnchanged

\* PHASE 2: tempDir = path.join('tempupgrade', tool + '_' + now()), ensureDir and
\* extractArchive into it
RunExtract ==
    /\ \E r \in Runs :
         /\ run[r].pc = "backed up"
         /\ LET tempDir_ == <<"tempupgrade", run[r].toolType, now>>
            IN  /\ run' = [run EXCEPT ![r].tempDir = tempDir_, ![r].pc = "extracted"]
                /\ Use(r, tempDir_)
    /\ UNCHANGED clock
    /\ CUnchanged

\* PHASE 3 and 4: the preserve phase writes into the extracted tree and the
\* replace step copies it over the installation
RunReplace ==
    /\ \E r \in Runs :
         /\ run[r].pc = "extracted"
         /\ run' = [run EXCEPT ![r].pc = "replaced"]
         /\ Use(r, run[r].tempDir)
    /\ UNCHANGED clock
    /\ CUnchanged

\* await fs.remove(tempDir)
RunRemoveTemp ==
    /\ \E r \in Runs :
         /\ run[r].pc = "replaced"
         /\ run' = [run EXCEPT ![r].pc = "temp removed"]
         /\ Use(r, run[r].tempDir)
    /\ UNCHANGED clock
    /\ CUnchanged

\* PHASE 5: zipAndCleanupFolder(backupFolder) reads the folder and removes it
RunCompress ==
    /\ \E r \in Runs :
         /\ run[r].pc = "temp removed"
         /\ run' = [run EXCEPT ![r].pc = "done"]
         /\ Use(r, run[r].backupFolder)
    /\ UNCHANGED clock
    /\ CUnchanged

\* a step after the backup throws: the catch clause restores from backupFolder
\* and removes tempDir when it is set
RunFails ==
    /\ \E r \in Runs :
         /\ run[r].pc \in {"backed up", "extracted", "replaced", "temp removed"}
         /\ run' = [run EXCEPT ![r].pc = "failed"]
         /\ uses' = uses \cup {[path |-> d, run |-> r] :
                                 d \in {run[r].backupFolder, run[r].tempDir} \ {<<>>}}
    /\ UNCHANGED clock
    /\ CUnchanged

CNext ==
    \/ Tick
    \/ RunBackup
    \/ RunExtract
    \/ RunReplace
    \/ RunRemoveTemp
    \/ RunCompress
    \/ RunFails

ConcSpec == CInit /\ [][CNext]_vars

\* C23 (as claimed): of two concurrent upgrade runs with different target paths,
\* also of the same tool type and started within one second, neither reads,
\* writes or removes the temporary extraction directory or the backup folder
\* that the other one uses.
C23_RunsShareNoDirectory ==
    \A u \in uses : \A v \in uses : u.path = v.path => u.run = v.run

(***************************************************************************)
(* Properties of the parser of directive-format text                       *)
(***************************************************************************)
\* every start tag of the text has its end tag after it, in order of nesting
RECURSIVE BalancedFrom(_, _, _)
BalancedFrom(lines, i, open) ==
    IF i > Len(lines) THEN open = <<>>
    ELSE IF ClosingTag(lines[i].name) # ""
      THEN BalancedFrom(lines, i + 1, <<ClosingTag(lines[i].name)>> \o open)
    ELSE IF \E n \in {"<VirtualHost", "<DirectoryMatch", "<Directory", "<IfModule"} :
               lines[i].name = ClosingTag(n)
      THEN /\ open # <<>>
           /\ Head(open) = lines[i].name
           /\ BalancedFrom(lines, i + 1, Tail(open))
    ELSE BalancedFrom(lines, i + 1, open)

\* C24 (as claimed): parsing a text with an unbalanced block tag fails, so that
\* mergeApacheConfig gets a parsed document only of texts whose block tags are
\* balanced (and parsing every balanced text succeeds).
C24_UnbalancedTextRejected ==
    mpc = "parsed" => /\ BalancedFrom(oldContent, 1, <<>>)
                      /\ BalancedFrom(newContent, 1, <<>>)

\* the line of the end tag that matches the start tag at line s of a balanced text
MatchingEnd(lines, s) ==
    CHOOSE j \in s..Len(lines) :
        /\ BalancedFrom(SubSeq(lines, s, j), 1, <<>>)
        /\ \A k \in s..(j - 1) : ~BalancedFrom(SubSeq(lines, s, k), 1, <<>>)

\* C25 (as claimed): in the parsed document of a text with balanced tags, each
\* block captured by extractApacheBlock is the lines from its start tag to the
\* matching end tag, inclusive, also for a block opened by <DirectoryMatch ...>.
C25_BlockSpansToMatchingEnd ==
    (mpc = "parsed" /\ BalancedFrom(oldContent, 1, <<>>)) =>
        \A blocks \in {oldConfig.virtualHosts, oldConfig.directories, oldConfig.ifModules} :
            \A k \in DOMAIN blocks :
                blocks[k].content =
                    SubSeq(oldContent, blocks[k].startIndex,
                           MatchingEnd(oldContent, blocks[k].startIndex))

(***************************************************************************)
(* Properties of the order of the steps                                    *)
(***************************************************************************)
\* the steps that stop the services or processes of the tool: killApacheProcesses
\* runs taskkill /im httpd.exe, detectAndStopServices stops the services of the
\* tool type it is called for
StopStepsOf(toolType) ==
    IF toolType = "httpd" THEN {"killApacheProcesses", "detectAndStopServices"}
    ELSE {"detectAndStopServices"}

\* C26 (as claimed): in a run that reaches Replace, backup and extract have
\* happened before it, in this order, and a step that stops the services of the
\* run's tool has happened before it, for every tool type and also when
\* preserveConfig and preserveData are both false.
C26_ServiceStoppedBeforeReplace ==
    \A i \in DOMAIN history :
        history[i] = "replace" =>
            /\ \E j \in 1..(i - 1) : \E k \in (j + 1)..(i - 1) :
                   history[j] = "backup" /\ history[k] = "extract"
            /\ \E j \in 1..(i - 1) : history[j] \in StopStepsOf(config.toolType)

\* C27 (as claimed): after the httpd preserve phase has run over all its items,
\* the hardening include file is in the new tree at the path that the Include
\* line of the merged conf/httpd.conf names, relative to the installation root.
C27_IncludeFileWhereIncluded ==
    mpc = "preserved" =>
        /\ \E i \in DOMAIN finalContent : finalContent[i] = IncludeLine
        /\ IncludeTarget \in newTreeFiles

(***************************************************************************)
(* Properties of the backup                                                *)
(***************************************************************************)
\* C28: from the return of the backup step to the end of the run, the backup
\* folder or the backup zip exists at every step, also after a failure inside
\* the compress step or in the final cleanup.
C28_BackupAlwaysThere ==
    backupFolder # "" => backupFolderExists \/ backupZipExists

\* the compress step failed before the zip was written and the rollback
\* restored from the folder
C28_Witness ==
    /\ pc = "done"
    /\ err = "zip failed"
    /\ ~backupZipExists
    /\ restoreFrom = "folder"

(***************************************************************************)
(* The log of one session and its SSE client: the entries the run appends  *)
(* through the log helpers of server.mjs and through logs.push in          *)
(* configMerger.mjs, the client of GET /api/upgrade-stream/:sessionId, and *)
(* the completion signal of the upgrade handler.                           *)
(***************************************************************************)
MaxLog == 3

Greeting == [kind |-> "log", by |-> "stream", n |-> 0]
CompleteEvent == [kind |-> "complete", by |-> "handler", n |-> 0]

SInit ==
    /\ HIdle
    /\ TInitIdle
    /\ DInitIdle
    /\ XInitIdle
    /\ oldConfig = EmptyConfig
    /\ newConfig = EmptyConfig
    /\ userCustomizations = EmptyCustomizations
    /\ mergedConfig = EmptyConfig
    /\ mpc = "off"
    /\ clock = 0
    /\ run = [r \in Runs |-> NoRun]
    /\ uses = {}
    /\ slog = <<>>
    /\ stream = <<>>
    /\ client = "none"
    /\ joined = 0
    /\ spc = "running"
    /\ jdk = NoJdk

SUnchanged == UNCHANGED <<hvars, oldConfig, newConfig, userCustomizations, mergedConfig, mpc,
                          tvars, dvars, xvars, clock, run, uses, jdk>>

\* app.get('/api/upgrade-stream/:sessionId'): activeClients.set and the greeting
StreamConnect ==
    /\ spc = "running"
    /\ client = "none"
    /\ client' = "connected"
    /\ joined' = Len(slog)
    /\ stream' = Append(stream, Greeting)
    /\ UNCHANGED <<slog, spc>>
    /\ SUnchanged

\* req.on('close'): activeClients.delete(sessionId)
StreamClose ==
    /\ client = "connected"
    /\ client' = "closed"
    /\ UNCHANGED <<slog, stream, joined, spc>>
    /\ SUnchanged

\* logStep of server.mjs (and logCommand, logResult, logError, ... which call it):
\* logs.push(logEntry), and client.write when activeClients has the session
ServerLogStep ==
    /\ spc = "running"
    /\ Len(slog) < MaxLog
    /\ LET logEntry == [kind |-> "log", by |-> "server", n |-> Len(slog) + 1]
       IN  /\ slog' = Append(slog, logEntry)
           /\ stream' = IF client = "connected" THEN Append(stream, logEntry) ELSE stream
    /\ UNCHANGED <<client, joined, spc>>
    /\ SUnchanged

\* configMerger.mjs: logs.push(`[APACHE_MERGE] ...`), logs.push(`[SMART_MERGE] ...`)
MergerLogsPush ==
    /\ spc = "running"
    /\ Len(slog) < MaxLog
    /\ slog' = Append(slog, [kind |-> "log", by |-> "merger", n |-> Len(slog) + 1])
    /\ UNCHANGED <<stream, client, joined, spc>>
    /\ SUnchanged

\* the completion signal and the response: client.write({complete: true, ...}),
\* activeClients.delete(sessionId), res.json({logs: logs.join('\n'), ...})
StreamComplete ==
    /\ spc = "running"
    /\ IF client = "connected"
         THEN /\ stream' = Append(stream, CompleteEvent)
              /\ client' = "closed"
         ELSE UNCHANGED <<stream, client>>
    /\ spc' = "responded"
    /\ UNCHANGED <<slog, joined>>
    /\ SUnchanged

SNext ==
    \/ StreamConnect
    \/ StreamClose
    \/ ServerLogStep
    \/ MergerLogsPush
    \/ StreamComplete

StreamSpec == SInit /\ [][SNext]_vars

\* C29 (as claimed): for a consumer that connected before the first record and
\* stayed connected to the completion of the run, the records pushed after the
\* greeting are the records of the session's log as the response returns it, in
\* the same order, followed by the completion event as the last event.
C29_StreamEqualsLog ==
    (/\ spc = "responded"
     /\ stream # <<>>
     /\ joined = 0
     /\ stream[Len(stream)] = CompleteEvent)
    => SubSeq(stream, 2, Len(stream) - 1) = slog

(***************************************************************************)
(* smartMergeConfiguration for the jdk kind: mergeJDKConfig without a      *)
(* certificate folder, and the merge item of comprehensivePreserveJDK_SECURE *)
(* that calls it.  A policy file is the set of its grant entries; the files *)
(* of the old and of the new JDK are paths relative to their roots.        *)
(***************************************************************************)
MaxGrants == 2

PolicyPath == <<"lib", "security", "java.policy">>
CacertsPath == <<"lib", "security", "cacerts">>

\* the grant entries, by codeBase and number: the default one names ${java.home}
DefaultGrant == <<"file:${java.home}/lib/ext/*", 0>>
UserGrants == {<<"file:/opt/app/-", g>> : g \in 1..MaxGrants}

\* the filter of extractJavaUserGrants: grant.includes('${java.home}') || ...
extractJavaUserGrants(content) ==
    {grant \in content : grant[1] # "file:${java.home}/lib/ext/*"}

\* fs.pathExists(path.join(base, ...segments)) in a tree with the given files: a
\* path below a file does not exist
pathExists(files, base, segments) == (base \o segments) \in files

\* the arguments: the roots of the two JDKs, as mergeJDKConfig names its
\* parameters, or the two java.policy files, as the preserve phase passes them
JdkCalls == {[old |-> <<>>, new |-> <<>>], [old |-> PolicyPath, new |-> PolicyPath]}

JInit ==
    /\ HIdle
    /\ TInitIdle
    /\ DInitIdle
    /\ XInitIdle
    /\ oldConfig = EmptyConfig
    /\ newConfig = EmptyConfig
    /\ userCustomizations = EmptyCustomizations
    /\ mergedConfig = EmptyConfig
    /\ mpc = "off"
    /\ clock = 0
    /\ run = [r \in Runs |-> NoRun]
    /\ uses = {}
    /\ slog = <<>>
    /\ stream = <<>>
    /\ client = "none"
    /\ joined = 0
    /\ spc = "off"
    /\ \E call \in JdkCalls, oldPolicy \in SUBSET ({DefaultGrant} \cup UserGrants),
          newPolicy \in SUBSET {DefaultGrant}, oldCacerts \in BOOLEAN :
         jdk = [pc |-> "called", oldJdkPath |-> call.old, newJdkPath |-> call.new,
                oldFiles |-> {PolicyPath} \cup (IF oldCacerts THEN {CacertsPath} ELSE {}),
                newFiles |-> {PolicyPath, CacertsPath},
                oldPolicy |-> oldPolicy, newPolicy |-> newPolicy, result |-> <<>>,
                counted |-> ""]

JUnchanged == UNCHANGED <<hvars, oldConfig, newConfig, userCustomizations, mergedConfig, mpc,
                          tvars, dvars, xvars, clock, run, uses, slog, stream, client,
                          joined, spc>>

\* mergeJDKConfig(oldJdkPath, newJdkPath, undefined, undefined, logs, sessionId):
\* no certificate folder; the policies are merged when both policy paths exist;
\* the old cacerts is copied when it exists; the function returns results
mergeJDKConfig ==
    /\ jdk.pc = "called"
    /\ LET policiesMerged ==
               /\ pathExists(jdk.oldFiles, jdk.oldJdkPath, PolicyPath)
               /\ pathExists(jdk.newFiles, jdk.newJdkPath, PolicyPath)
           cacertsCopied == pathExists(jdk.oldFiles, jdk.oldJdkPath, CacertsPath)
           results == ("certificatesImported" :> "0"
                       @@ "cacertsCopied" :> (IF cacertsCopied THEN "true" ELSE "false")
                       @@ "policiesMerged" :> (IF policiesMerged THEN "true" ELSE "false")
                       @@ "errors" :> "[]")
       IN  jdk' = [jdk EXCEPT
                     !.newPolicy = IF policiesMerged
                                     THEN @ \cup extractJavaUserGrants(jdk.oldPolicy)
                                     ELSE @,
                     !.newFiles = IF cacertsCopied
                                    THEN @ \cup {jdk.newJdkPath \o CacertsPath}
                                    ELSE @,
                     !.result = results,
                     !.pc = "merged"]
    /\ JUnchanged

\* smartMergeConfiguration, lines 1196-1203: return {...result, stoppedServices}
ReturnJdkResult ==
    /\ jdk.pc = "merged"
    /\ jdk' = [jdk EXCEPT !.result = @ @@ ("stoppedServices" :> "[]"), !.pc = "returned"]
    /\ JUnchanged

\* comprehensivePreserveJDK_SECURE, lines 823-829: if (mergeResult.merged)
\* mergedCount++ else preservedCount++
CountJdkItem ==
    /\ jdk.pc = "returned"
    /\ jdk' = [jdk EXCEPT !.counted = IF Get(jdk.result, "merged") \notin {"", "false"}
                                        THEN "merged" ELSE "preserved",
                          !.pc = "counted"]
    /\ JUnchanged

JNext ==
    \/ mergeJDKConfig
    \/ ReturnJdkResult
    \/ CountJdkItem

JdkSpec == JInit /\ [][JNext]_vars

\* C30 (as claimed): when smartMergeConfiguration returns for the jdk kind without
\* taking the fallback path, its result has merged = true and the preserve phase
\* counts the file as smart-merged; called with the two java.policy file paths,
\* as the preserve phase calls it, the new policy file has the user grants of the
\* old policy.
C30_JdkMergeReported ==
    jdk.pc = "counted" =>
        /\ Get(jdk.result, "merged") = "true"
        /\ jdk.counted = "merged"
        /\ jdk.oldJdkPath = PolicyPath =>
               extractJavaUserGrants(jdk.oldPolicy) \subseteq jdk.newPolicy

====
